---- MODULE Spec2Model ----
\* AlphaAgent: the factor-mining workflow loop (AlphaAgentLoop), its
\* cooperative cancellation, its session checkpoints, and the batch
\* synthesis (evolve) that the factor_calculate step delegates to.
EXTENDS Integers, Sequences, FiniteSets, TLC

\* ------------------------------------------------------------------ bounds

\* Iterations a run may start (loop_idx is unbounded in the program).
MaxLoop == 2
\* Largest step ceiling (step_n) a caller supplies.
MaxStepN == 2
\* Tasks in the batch the constructor returns.
NumTasks == 2
\* Times a session is resumed from its checkpoint.
MaxResume == 1

\* ------------------------------------------------------------- vocabulary

\* step_n=None: no step ceiling.
NoCeiling == -1

StepNChoices == {NoCeiling} \cup (1..MaxStepN)

\* The stop_event argument: no event at all, or a threading.Event.
StopEvents == {"None", "ev"}

\* What one implement_one_task call hands back: None, the empty text, code.
ImplResults == {"None", "", "tmpl"}

\* What the execution engine hands back: the no-result sentinel or a result.
EngineResults == {"None", "exp"}

\* ------------------------------------------------------------------ state

VARIABLES
    pc,             \* where run() is: top, body, save, raised, finished, terminated, crashed
    loop_idx,       \* LoopBase.loop_idx
    step_idx,       \* LoopBase.step_idx
    loop_prev_out,  \* LoopBase.loop_prev_out: step name -> output
    trace,          \* self.trace.hist
    use_local,      \* self.use_local
    STOP_EVENT,     \* the module global STOP_EVENT
    ev_set,         \* the event's flag (Event.is_set())
    step_n,         \* run()'s remaining step ceiling
    session,        \* the latest checkpoint on disk (<<>>: none)
    err,            \* the exception in flight or that ended the run
    result,         \* evolve: per task, the worker's result or "pending"
    in_progress,    \* history: the step bodies in progress
    invoked,        \* history: the last step invocation and the flag it saw
    stop_at,        \* history: where the run was when the flag was set
    engine_ret,     \* history: what the engine returned to the step that just ended
    g,              \* history: completed feedbacks, completed steps, last returned step
    g_saved,        \* history: g as of the latest checkpoint
    resumes,        \* history: resumes so far
    impl,           \* one implement_one_task call: its locals and what it returned
    batch,          \* one evolve call: the item before, the results, the item after
    proc,           \* the process: its entry point, its arguments, the data, its exit status
    exec,           \* one QlibFBWorkspace.execute call: the engine runs, the files, the result
    summary         \* one error_summary call: its lists, its rounds, its oracle call

vars == <<pc, loop_idx, step_idx, loop_prev_out, trace, use_local, STOP_EVENT,
          ev_set, step_n, session, err, result, in_progress, invoked, stop_at,
          engine_ret, g, g_saved, resumes, impl, batch, proc, exec, summary>>

\* The state of the workflow loop.
loop_vars == <<pc, loop_idx, step_idx, loop_prev_out, trace, use_local, STOP_EVENT,
               ev_set, step_n, session, err, result, in_progress, invoked, stop_at,
               engine_ret, g, g_saved, resumes, proc>>

\* No implement_one_task call and no evolve call under observation.
NoCall == [pc |-> "none"]

NoBatch == [pc |-> "none"]

\* No execute call under observation.
NoExecute == [pc |-> "none"]

\* No error_summary call under observation.
NoSummary == [pc |-> "none"]

\* A process in which main has got past its data check: its entry point
\* (factor_mining or factor_backtest), the path and stop_event arguments, the
\* state of the market data, and its exit status, -1 as long as it has not
\* exited.
Process(entry, path, stop_event, initialized) ==
    [entry |-> entry, path |-> path, stop_event |-> stop_event,
     data_initialized |-> initialized, status |-> -1]

Mining == Process("factor_mining", "None", "None", TRUE)

Backtest == Process("factor_backtest", "None", "None", TRUE)

\* ------------------------------------------------------- AlphaAgentLoop

\* The steps LoopMeta collects: the public methods in definition order.
steps_swapped == <<"factor_propose", "factor_construct", "factor_calculate",
                   "feedback", "factor_backtest">>

steps == <<"factor_propose", "factor_construct", "factor_calculate",
           "factor_backtest", "feedback">>

StepNames == {steps[i] : i \in 1..Len(steps)}

StepName(si) == steps[si + 1]

\* The steps that carry the @stop_event_check decorator.
stop_checked_steps_no_propose == {"factor_construct", "factor_calculate",
                                  "factor_backtest", "feedback"}

stop_checked_steps_no_backtest == {"factor_propose", "factor_construct", "factor_calculate",
                                   "feedback"}

stop_checked_steps == {"factor_propose", "factor_construct", "factor_calculate",
                       "factor_backtest", "feedback"}

\* stop_event_check's wrapper: the exception it raises, or "none".
stop_event_check_inverted(stop_event, is_set) ==
    IF stop_event = "None" /\ is_set THEN "Exception" ELSE "none"

stop_event_check(stop_event, is_set) ==
    IF stop_event # "None" /\ is_set THEN "Exception" ELSE "none"

\* skip_loop_error = (FactorEmptyError,)
skip_loop_error_any == {"FactorEmptyError", "Exception"}

skip_loop_error_none == {}

skip_loop_error == {"FactorEmptyError"}

Absent == [kind |-> "absent"]

\* The empty output dictionary.
EmptyOut == [n \in StepNames |-> Absent]

Has(prev_out, key) == prev_out[key].kind # "absent"

KeyError(tr) == [err |-> "KeyError", out |-> Absent, trace |-> tr]

Ok(out, tr) == [err |-> "none", out |-> out, trace |-> tr]

\* factor_propose: hypothesis_generator.gen(self.trace). li tags the object
\* with the iteration that made it.
factor_propose_cached(prev_out, tr, li) ==
    IF Has(prev_out, "factor_propose")
    THEN Ok(prev_out["factor_propose"], tr)
    ELSE Ok([kind |-> "hyp", loop |-> li, seen |-> Len(tr)], tr)

factor_propose(prev_out, tr, li) ==
    Ok([kind |-> "hyp", loop |-> li, seen |-> Len(tr)], tr)

\* A slot of sub_workspace_list that holds None.
NoWorkspace == [kind |-> "None"]

FactorFBWorkspace_first_task(task) == [kind |-> "ws", target_task |-> 1, code |-> "n/a"]

\* FactorFBWorkspace(target_task=...): a new workspace of that task, no code yet.
FactorFBWorkspace(task) == [kind |-> "ws", target_task |-> task, code |-> "n/a"]

\* workspace.inject_code(**{"factor.py": code})
inject_code(workspace, code) == [workspace EXCEPT !.code = code]

\* factor_construct: factor_constructor.convert(prev_out["factor_propose"], trace):
\* a fresh batch of tasks, no workspace yet.
factor_construct_logging(prev_out, tr, li) ==
    IF ~Has(prev_out, "factor_propose") THEN KeyError(tr)
    ELSE [err |-> "none",
          out |-> [kind |-> "evo", loop |-> li, hyp |-> prev_out["factor_propose"].loop,
                   sub_tasks |-> [i \in 1..NumTasks |-> i],
                   sub_workspace_list |-> [i \in 1..NumTasks |-> NoWorkspace],
                   corresponding_selection |-> <<>>],
          trace |-> Append(tr, <<prev_out["factor_propose"], Absent, Absent>>)]

factor_construct(prev_out, tr, li) ==
    IF ~Has(prev_out, "factor_propose") THEN KeyError(tr)
    ELSE Ok([kind |-> "evo", loop |-> li, hyp |-> prev_out["factor_propose"].loop,
             sub_tasks |-> [i \in 1..NumTasks |-> i],
             sub_workspace_list |-> [i \in 1..NumTasks |-> NoWorkspace],
             corresponding_selection |-> <<>>], tr)

assign_code_list_to_evo_break(code_list, evo) ==
    [evo EXCEPT !.sub_workspace_list =
        [index \in 1..Len(evo.sub_tasks) |->
            IF \E k \in 1..index : code_list[k] = "None"
            THEN evo.sub_workspace_list[index]
            ELSE inject_code(
                    IF evo.sub_workspace_list[index] = NoWorkspace
                    THEN FactorFBWorkspace(evo.sub_tasks[index])
                    ELSE evo.sub_workspace_list[index],
                    code_list[index])]]

assign_code_list_to_evo_create_only(code_list, evo) ==
    [evo EXCEPT !.sub_workspace_list =
        [index \in 1..Len(evo.sub_tasks) |->
            IF code_list[index] = "None" \/ evo.sub_workspace_list[index] # NoWorkspace
            THEN evo.sub_workspace_list[index]
            ELSE inject_code(FactorFBWorkspace(evo.sub_tasks[index]), code_list[index])]]

\* assign_code_list_to_evo: a None result leaves the slot alone; any other
\* result creates the workspace if absent and injects the code.
assign_code_list_to_evo(code_list, evo) ==
    [evo EXCEPT !.sub_workspace_list =
        [index \in 1..Len(evo.sub_tasks) |->
            IF code_list[index] = "None"
            THEN evo.sub_workspace_list[index]
            ELSE inject_code(
                    IF evo.sub_workspace_list[index] = NoWorkspace
                    THEN FactorFBWorkspace(evo.sub_tasks[index])
                    ELSE evo.sub_workspace_list[index],
                    code_list[index])]]

evolve_reversed(evo, res) ==
    LET to_be_finished_task_index == [i \in 1..Len(evo.sub_tasks) |-> i]
        code_list == [i \in 1..Len(evo.sub_tasks) |-> res[Len(evo.sub_tasks) + 1 - i]]
    IN  [assign_code_list_to_evo(code_list, evo)
            EXCEPT !.corresponding_selection = to_be_finished_task_index]

evolve_selection_unset(evo, res) ==
    LET code_list == [i \in 1..Len(evo.sub_tasks) |-> res[i]]
    IN  assign_code_list_to_evo(code_list, evo)

\* evolve: every index is selected; results come back in index order.
evolve(evo, res) ==
    LET to_be_finished_task_index == [i \in 1..Len(evo.sub_tasks) |-> i]
        code_list == [i \in 1..Len(evo.sub_tasks) |-> res[i]]
    IN  [assign_code_list_to_evo(code_list, evo)
            EXCEPT !.corresponding_selection = to_be_finished_task_index]

factor_calculate_recording(prev_out, tr, li, res) ==
    IF ~Has(prev_out, "factor_construct") THEN KeyError(tr)
    ELSE Ok([evolve(prev_out["factor_construct"], res) EXCEPT !.loop = li],
            Append(tr, <<prev_out["factor_propose"], Absent, Absent>>))

\* factor_calculate: coder.develop(prev_out["factor_construct"]).
factor_calculate(prev_out, tr, li, res) ==
    IF ~Has(prev_out, "factor_construct") THEN KeyError(tr)
    ELSE Ok([evolve(prev_out["factor_construct"], res) EXCEPT !.loop = li], tr)

\* factor_backtest: runner.develop(prev_out["factor_calculate"]); the
\* no-result sentinel raises FactorEmptyError.
factor_backtest_lenient(prev_out, tr, li, exp) ==
    IF ~Has(prev_out, "factor_calculate") THEN KeyError(tr)
    ELSE Ok([kind |-> "exp", loop |-> li, evo |-> prev_out["factor_calculate"].loop,
             value |-> exp], tr)

factor_backtest(prev_out, tr, li, exp) ==
    IF ~Has(prev_out, "factor_calculate") THEN KeyError(tr)
    ELSE IF exp = "None"
         THEN [err |-> "FactorEmptyError", out |-> Absent, trace |-> tr]
         ELSE Ok([kind |-> "exp", loop |-> li, evo |-> prev_out["factor_calculate"].loop,
                  value |-> exp], tr)

\* summarizer.generate_feedback(exp, hypothesis, trace)
generate_feedback(exp, hyp, tr) ==
    [kind |-> "fb", exp |-> exp.loop, hyp |-> hyp.loop, seen |-> Len(tr)]

\* feedback: appends (hypothesis, result, feedback) to trace.hist; returns None.
feedback_overwrite(prev_out, tr, li) ==
    IF ~Has(prev_out, "factor_backtest") \/ ~Has(prev_out, "factor_propose")
    THEN KeyError(tr)
    ELSE LET fb == generate_feedback(prev_out["factor_backtest"],
                                     prev_out["factor_propose"], tr)
         IN  [err |-> "none", out |-> [kind |-> "none", loop |-> li],
              trace |-> <<<<prev_out["factor_propose"], prev_out["factor_backtest"], fb>>>>]

feedback(prev_out, tr, li) ==
    IF ~Has(prev_out, "factor_backtest") \/ ~Has(prev_out, "factor_propose")
    THEN KeyError(tr)
    ELSE LET fb == generate_feedback(prev_out["factor_backtest"],
                                     prev_out["factor_propose"], tr)
         IN  [err |-> "none", out |-> [kind |-> "none", loop |-> li],
              trace |-> Append(tr, <<prev_out["factor_propose"],
                                     prev_out["factor_backtest"], fb>>)]

\* getattr(self, name)(self.loop_prev_out)
CallStep(name, prev_out, tr, li, res, exp) ==
    CASE name = "factor_propose"   -> factor_propose(prev_out, tr, li)
      [] name = "factor_construct" -> factor_construct(prev_out, tr, li)
      [] name = "factor_calculate" -> factor_calculate(prev_out, tr, li, res)
      [] name = "factor_backtest"  -> factor_backtest(prev_out, tr, li, exp)
      [] name = "feedback"         -> feedback(prev_out, tr, li)

\* ------------------------------------------------------------ session store

\* dump: the serialized loop (iteration, step, outputs, trace, use_local).
LoopBase_dump(li, si, po, tr, ul) == <<li, si, po, tr, ul>>

\* LoopBase.load: the loop the blob deserializes into.
LoopBase_load(blob) ==
    [loop_idx |-> blob[1], step_idx |-> blob[2], loop_prev_out |-> blob[3],
     trace |-> blob[4], use_local |-> blob[5]]

\* AlphaAgentLoop.load that leaves the global STOP_EVENT at its import-time
\* value.
load_event_not_installed(blob, ul, stop_event) ==
    [instance |-> [LoopBase_load(blob) EXCEPT !.use_local = ul],
     STOP_EVENT |-> "None"]

\* AlphaAgentLoop.load: the stored instance with use_local replaced, and the
\* global STOP_EVENT set to the argument.
load_reinit(blob, ul, stop_event) ==
    [instance |-> [LoopBase_load(blob) EXCEPT !.use_local = ul, !.trace = <<>>],
     STOP_EVENT |-> stop_event]

load_restart(blob, ul, stop_event) ==
    [instance |-> [LoopBase_load(blob) EXCEPT !.use_local = ul, !.step_idx = 0],
     STOP_EVENT |-> stop_event]

load(blob, ul, stop_event) ==
    [instance |-> [LoopBase_load(blob) EXCEPT !.use_local = ul],
     STOP_EVENT |-> stop_event]

\* A checkpoint is written after every step.
ShouldDump_boundary(si) == si = 0

ShouldDump(si) == TRUE

\* The output dictionary a new iteration may start from: after a completed
\* iteration it is emptied; after a skipped one the specification does not
\* say, so it is either kept or emptied.
NextIterationOut(po, skipped) == IF skipped THEN {po, EmptyOut} ELSE {EmptyOut}

Checkpoint == LoopBase_dump(loop_idx, step_idx, loop_prev_out, trace, use_local)

\* ------------------------------------------------------------------- Init

NoInvocation == [loop |-> -1, step |-> "none", flag |-> FALSE]
NoStop == [loop |-> -1, window |-> "none"]
NoTasks == [i \in 1..NumTasks |-> "idle"]

\* main(path=None): AlphaAgentLoop.__init__ then run(step_n, stop_event).
Init ==
    /\ pc = "top"
    /\ loop_idx = 0
    /\ step_idx = 0
    /\ loop_prev_out = EmptyOut
    /\ trace = <<>>
    /\ use_local \in BOOLEAN
    /\ STOP_EVENT \in StopEvents
    /\ ev_set = FALSE
    /\ step_n \in StepNChoices
    /\ session = <<>>
    /\ err = "none"
    /\ result = NoTasks
    /\ in_progress = {}
    /\ invoked = NoInvocation
    /\ stop_at = NoStop
    /\ engine_ret = "n/a"
    /\ g = [fb_done |-> 0, ncompleted |-> 0, last_ret |-> <<>>]
    /\ g_saved = g
    /\ resumes = 0
    /\ impl = NoCall
    /\ batch = NoBatch
    /\ proc = Process("factor_mining", "None", STOP_EVENT, TRUE)
    /\ exec = NoExecute
    /\ summary = NoSummary

\* ------------------------------------------------------------ LoopBase.run

Live == pc \in {"top", "body", "save", "raised"}

CeilingReached == step_n # NoCeiling /\ step_n <= 0

\* What the wrappers of the step about to be called raise, if anything.
WrapperRaises(name) ==
    IF name \in stop_checked_steps THEN stop_event_check(STOP_EVENT, ev_set) ELSE "none"

FlagNow == STOP_EVENT # "None" /\ ev_set

\* run(): the step ceiling is used up: the loop ends.
RunCeiling ==
    /\ pc = "top"
    /\ CeilingReached
    /\ pc' = "finished"
    /\ UNCHANGED <<summary, exec, proc, impl, batch, loop_idx, step_idx, loop_prev_out, trace, use_local, STOP_EVENT,
                   ev_set, step_n, session, err, result, in_progress, invoked,
                   stop_at, engine_ret, g, g_saved, resumes>>

\* run() calls the next step and its cancellation check passes: the body starts.
\* In factor_calculate the body dispatches one implement call per task.
StepBegin ==
    /\ pc = "top"
    /\ ~CeilingReached
    /\ loop_idx < MaxLoop
    /\ WrapperRaises(StepName(step_idx)) = "none"
    /\ pc' = "body"
    /\ step_n' = IF step_n = NoCeiling THEN step_n ELSE step_n - 1
    /\ in_progress' = in_progress \cup {<<loop_idx, StepName(step_idx)>>}
    /\ invoked' = [loop |-> loop_idx, step |-> StepName(step_idx), flag |-> FlagNow]
    /\ result' = IF StepName(step_idx) = "factor_calculate"
                 THEN [i \in 1..NumTasks |-> "pending"] ELSE NoTasks
    /\ engine_ret' = "n/a"
    /\ UNCHANGED <<summary, exec, proc, impl, batch, loop_idx, step_idx, loop_prev_out, trace, use_local, STOP_EVENT,
                   ev_set, session, err, stop_at, g, g_saved, resumes>>

\* run() calls the next step and its cancellation check raises.
StepCancelled ==
    /\ pc = "top"
    /\ ~CeilingReached
    /\ WrapperRaises(StepName(step_idx)) # "none"
    /\ pc' = "raised"
    /\ err' = WrapperRaises(StepName(step_idx))
    /\ step_n' = IF step_n = NoCeiling THEN step_n ELSE step_n - 1
    /\ invoked' = [loop |-> loop_idx, step |-> StepName(step_idx), flag |-> FlagNow]
    /\ engine_ret' = "n/a"
    /\ UNCHANGED <<summary, exec, proc, impl, batch, loop_idx, step_idx, loop_prev_out, trace, use_local, STOP_EVENT,
                   ev_set, session, result, in_progress, stop_at, g, g_saved, resumes>>

\* One worker of evolve finishes its implement_one_task call.
Worker(i) ==
    /\ pc = "body"
    /\ result[i] = "pending"
    /\ \E r \in ImplResults : result' = [result EXCEPT ![i] = r]
    /\ UNCHANGED <<summary, exec, proc, impl, batch, pc, loop_idx, step_idx, loop_prev_out, trace, use_local,
                   STOP_EVENT, ev_set, step_n, session, err, in_progress, invoked,
                   stop_at, engine_ret, g, g_saved, resumes>>

WorkerDone == \E i \in 1..NumTasks : Worker(i)

\* The step body ends. If it raised, the exception is in flight; otherwise
\* run() stores the output, advances the indices and goes on to the checkpoint.
StepReturn ==
    /\ pc = "body"
    /\ \A i \in 1..NumTasks : result[i] # "pending"
    /\ LET name == StepName(step_idx)
           nsi == (step_idx + 1) % Len(steps)
       IN \E exp \in (IF name = "factor_backtest" THEN EngineResults ELSE {"n/a"}) :
          LET r == CallStep(name, loop_prev_out, trace, loop_idx, result, exp)
              po == [loop_prev_out EXCEPT ![name] = r.out]
          IN /\ engine_ret' = exp
             /\ trace' = r.trace
             /\ in_progress' = in_progress \ {<<loop_idx, name>>}
             /\ result' = NoTasks
             /\ IF r.err # "none"
                THEN /\ pc' = "raised"
                     /\ err' = r.err
                     /\ UNCHANGED <<summary, exec, proc, impl, batch, loop_idx, step_idx, loop_prev_out, g>>
                ELSE /\ pc' = IF ShouldDump(nsi) THEN "save" ELSE "top"
                     /\ err' = err
                     /\ step_idx' = nsi
                     /\ loop_idx' = IF nsi = 0 THEN loop_idx + 1 ELSE loop_idx
                     /\ loop_prev_out' \in
                            (IF nsi = 0 THEN NextIterationOut(po, FALSE) ELSE {po})
                     /\ g' = [fb_done |-> g.fb_done + (IF name = "feedback" THEN 1 ELSE 0),
                              ncompleted |-> g.ncompleted + 1,
                              last_ret |-> <<loop_idx, name>>]
    /\ UNCHANGED <<summary, exec, proc, impl, batch, use_local, STOP_EVENT, ev_set, step_n, session, invoked, stop_at,
                   g_saved, resumes>>

\* run() writes the checkpoint of the step that just completed.
Save ==
    /\ pc = "save"
    /\ session' = Checkpoint
    /\ g_saved' = g
    /\ pc' = "top"
    /\ UNCHANGED <<summary, exec, proc, impl, batch, loop_idx, step_idx, loop_prev_out, trace, use_local, STOP_EVENT,
                   ev_set, step_n, err, result, in_progress, invoked, stop_at,
                   engine_ret, g, resumes>>

\* run() catches an error of skip_loop_error: the iteration is abandoned.
SkipLoop ==
    /\ pc = "raised"
    /\ err \in skip_loop_error
    /\ loop_idx' = loop_idx + 1
    /\ step_idx' = 0
    /\ loop_prev_out' \in NextIterationOut(loop_prev_out, TRUE)
    /\ err' = "none"
    /\ pc' = "top"
    /\ UNCHANGED <<summary, exec, proc, impl, batch, trace, use_local, STOP_EVENT, ev_set, step_n, session, result,
                   in_progress, invoked, stop_at, engine_ret, g, g_saved, resumes>>

\* Any other error leaves run() after a final checkpoint; main logs it and
\* raises it again.
Abort ==
    /\ pc = "raised"
    /\ err \notin skip_loop_error
    /\ session' = Checkpoint
    /\ g_saved' = g
    /\ pc' = "terminated"
    /\ UNCHANGED <<summary, exec, proc, impl, batch, loop_idx, step_idx, loop_prev_out, trace, use_local, STOP_EVENT,
                   ev_set, step_n, err, result, in_progress, invoked, stop_at,
                   engine_ret, g, resumes>>

\* ------------------------------------------------------------ environment

\* Where the run is when the flag is set: in the body of iteration k's
\* feedback (its check has passed), after that feedback returned and before
\* iteration k+1 began, or anywhere else.
StopWindow ==
    IF pc = "body" /\ StepName(step_idx) = "feedback"
    THEN [loop |-> loop_idx, window |-> "feedback"]
    ELSE IF pc \in {"save", "top"} /\ step_idx = 0 /\ loop_idx > 0
            /\ g.last_ret = <<loop_idx - 1, "feedback">>
         THEN [loop |-> loop_idx - 1, window |-> "boundary"]
         ELSE [loop |-> -1, window |-> "other"]

\* Another thread sets the stop event.
SetStop ==
    /\ Live
    /\ STOP_EVENT # "None"
    /\ ~ev_set
    /\ ev_set' = TRUE
    /\ stop_at' = StopWindow
    /\ UNCHANGED <<summary, exec, proc, impl, batch, pc, loop_idx, step_idx, loop_prev_out, trace, use_local,
                   STOP_EVENT, step_n, session, err, result, in_progress, invoked,
                   engine_ret, g, g_saved, resumes>>

\* The process dies (a crash, a kill, the forced timeout).
Crash ==
    /\ Live
    /\ resumes < MaxResume
    /\ pc' = "crashed"
    /\ in_progress' = {}
    /\ result' = NoTasks
    /\ UNCHANGED <<summary, exec, proc, impl, batch, loop_idx, step_idx, loop_prev_out, trace, use_local, STOP_EVENT,
                   ev_set, step_n, session, err, invoked, stop_at, engine_ret, g,
                   g_saved, resumes>>

\* main(path=session): AlphaAgentLoop.load then run(step_n, stop_event), in a
\* new process with a new event.
Resume ==
    /\ pc \in {"crashed", "finished", "terminated"}
    /\ session # <<>>
    /\ resumes < MaxResume
    /\ \E ul \in BOOLEAN, ev \in StopEvents, n \in StepNChoices :
        LET l == load(session, ul, ev)
        IN /\ loop_idx' = l.instance.loop_idx
           /\ step_idx' = l.instance.step_idx
           /\ loop_prev_out' = l.instance.loop_prev_out
           /\ trace' = l.instance.trace
           /\ use_local' = l.instance.use_local
           /\ STOP_EVENT' = l.STOP_EVENT
           /\ step_n' = n
           /\ proc' = Process("factor_mining", "session", ev, TRUE)
    /\ ev_set' = FALSE
    /\ pc' = "top"
    /\ err' = "none"
    /\ result' = NoTasks
    /\ in_progress' = {}
    /\ invoked' = NoInvocation
    /\ stop_at' = NoStop
    /\ engine_ret' = "n/a"
    /\ g' = g_saved
    /\ resumes' = resumes + 1
    /\ UNCHANGED <<summary, exec, impl, batch, session, g_saved>>

Next ==
    \/ RunCeiling
    \/ StepBegin
    \/ StepCancelled
    \/ WorkerDone
    \/ StepReturn
    \/ Save
    \/ SkipLoop
    \/ Abort
    \/ SetStop
    \/ Crash
    \/ Resume

Spec == Init /\ [][Next]_vars

\* The steps run() itself takes: its while loop goes on to the next one as
\* long as there is one.
LoopNext ==
    \/ RunCeiling
    \/ StepBegin
    \/ StepCancelled
    \/ WorkerDone
    \/ StepReturn
    \/ Save
    \/ SkipLoop
    \/ Abort

\* One process, from its start to its end, with run() never stalling of
\* itself: the stop request and the death of the process come from outside.
RunNext ==
    \/ LoopNext
    \/ SetStop
    \/ Crash

RunSpec == Init /\ [][RunNext]_vars /\ WF_vars(LoopNext)

\* ----------------------------------------------------------- BacktestLoop

\* The steps LoopMeta collects for BacktestLoop, in definition order.
bt_steps == <<"factor_propose", "factor_construct", "factor_calculate",
              "factor_backtest", "stop">>

BtStepNames == {bt_steps[i] : i \in 1..Len(bt_steps)}

BtStepName(si) == bt_steps[si + 1]

\* BacktestLoop.skip_loop_error = (FactorEmptyError,)
bt_skip_loop_error == {"FactorEmptyError"}

BtEmptyOut == [n \in BtStepNames |-> Absent]

\* stop: exit(0).
stop(prev_out, tr, li) == [err |-> "SystemExit", out |-> Absent, trace |-> tr]

\* BacktestLoop's steps: the bodies of AlphaAgentLoop's first four, without
\* the cancellation check.
BtCallStep(name, prev_out, tr, li, res, exp) ==
    CASE name = "factor_propose"   -> factor_propose(prev_out, tr, li)
      [] name = "factor_construct" -> factor_construct(prev_out, tr, li)
      [] name = "factor_calculate" -> factor_calculate(prev_out, tr, li, res)
      [] name = "factor_backtest"  -> factor_backtest(prev_out, tr, li, exp)
      [] name = "stop"             -> stop(prev_out, tr, li)

BtNextIterationOut(po) == {po, BtEmptyOut}

\* factor_backtest.main(path=None): BacktestLoop.__init__ then run(step_n).
\* g counts the propose and backtest bodies started.
BtInit ==
    /\ pc = "top"
    /\ loop_idx = 0
    /\ step_idx = 0
    /\ loop_prev_out = BtEmptyOut
    /\ trace = <<>>
    /\ use_local = FALSE
    /\ STOP_EVENT = "None"
    /\ ev_set = FALSE
    /\ step_n \in StepNChoices
    /\ session = <<>>
    /\ err = "none"
    /\ result = NoTasks
    /\ in_progress = {}
    /\ invoked = NoInvocation
    /\ stop_at = NoStop
    /\ engine_ret = "n/a"
    /\ g = [proposed |-> 0, backtested |-> 0]
    /\ g_saved = g
    /\ resumes = 0
    /\ impl = NoCall
    /\ batch = NoBatch
    /\ proc = Backtest
    /\ exec = NoExecute
    /\ summary = NoSummary

\* run() calls the next step: its body starts.
BtStepBegin ==
    /\ pc = "top"
    /\ ~CeilingReached
    /\ loop_idx < MaxLoop
    /\ pc' = "body"
    /\ step_n' = IF step_n = NoCeiling THEN step_n ELSE step_n - 1
    /\ in_progress' = in_progress \cup {<<loop_idx, BtStepName(step_idx)>>}
    /\ g' = [proposed |-> g.proposed
                          + (IF BtStepName(step_idx) = "factor_propose" THEN 1 ELSE 0),
             backtested |-> g.backtested
                          + (IF BtStepName(step_idx) = "factor_backtest" THEN 1 ELSE 0)]
    /\ result' = IF BtStepName(step_idx) = "factor_calculate"
                 THEN [i \in 1..NumTasks |-> "pending"] ELSE NoTasks
    /\ engine_ret' = "n/a"
    /\ UNCHANGED <<summary, exec, proc, impl, batch, loop_idx, step_idx, loop_prev_out, trace, use_local, STOP_EVENT,
                   ev_set, session, err, invoked, stop_at, g_saved, resumes>>

\* FactorRunningStrategy.implement_one_task: the template rendered with the
\* task's expression and name.
running_implement_one_task(target_task) == "tmpl"

\* One worker of evolve finishes its implement_one_task call.
BtWorker(i) ==
    /\ pc = "body"
    /\ result[i] = "pending"
    /\ result' = [result EXCEPT ![i] = running_implement_one_task(i)]
    /\ UNCHANGED <<summary, exec, proc, impl, batch, pc, loop_idx, step_idx, loop_prev_out, trace, use_local,
                   STOP_EVENT, ev_set, step_n, session, err, in_progress, invoked,
                   stop_at, engine_ret, g, g_saved, resumes>>

BtWorkerDone == \E i \in 1..NumTasks : BtWorker(i)

\* The step body ends: exit(0) ends the process, an error is in flight,
\* otherwise run() stores the output and advances.
BtStepReturn ==
    /\ pc = "body"
    /\ \A i \in 1..NumTasks : result[i] # "pending"
    /\ LET name == BtStepName(step_idx)
           nsi == (step_idx + 1) % Len(bt_steps)
       IN \E exp \in (IF name = "factor_backtest" THEN EngineResults ELSE {"n/a"}) :
          LET r == BtCallStep(name, loop_prev_out, trace, loop_idx, result, exp)
          IN /\ engine_ret' = exp
             /\ result' = NoTasks
             /\ trace' = r.trace
             /\ in_progress' = in_progress \ {<<loop_idx, name>>}
             /\ IF r.err = "SystemExit"
                THEN /\ pc' = "exited"
                     /\ err' = r.err
                     /\ UNCHANGED <<summary, exec, proc, impl, batch, loop_idx, step_idx, loop_prev_out>>
                ELSE IF r.err # "none"
                THEN /\ pc' = "raised"
                     /\ err' = r.err
                     /\ UNCHANGED <<summary, exec, proc, impl, batch, loop_idx, step_idx, loop_prev_out>>
                ELSE /\ pc' = "save"
                     /\ err' = err
                     /\ step_idx' = nsi
                     /\ loop_idx' = IF nsi = 0 THEN loop_idx + 1 ELSE loop_idx
                     /\ loop_prev_out' = [loop_prev_out EXCEPT ![name] = r.out]
    /\ UNCHANGED <<summary, exec, proc, impl, batch, use_local, STOP_EVENT, ev_set, step_n, session, invoked,
                   stop_at, g, g_saved, resumes>>

\* run() catches an error of BacktestLoop.skip_loop_error.
BtSkipLoop ==
    /\ pc = "raised"
    /\ err \in bt_skip_loop_error
    /\ loop_idx' = loop_idx + 1
    /\ step_idx' = 0
    /\ loop_prev_out' \in BtNextIterationOut(loop_prev_out)
    /\ err' = "none"
    /\ pc' = "top"
    /\ UNCHANGED <<summary, exec, proc, impl, batch, trace, use_local, STOP_EVENT, ev_set, step_n, session, result,
                   in_progress, invoked, stop_at, engine_ret, g, g_saved, resumes>>

\* factor_backtest.main(path=session): BacktestLoop.load then run(step_n), in
\* a new process: a new run, whose counts start again.
BtResume ==
    /\ pc \in {"crashed", "finished"}
    /\ session # <<>>
    /\ resumes < MaxResume
    /\ \E n \in StepNChoices :
        LET l == LoopBase_load(session)
        IN /\ loop_idx' = l.loop_idx
           /\ step_idx' = l.step_idx
           /\ loop_prev_out' = l.loop_prev_out
           /\ trace' = l.trace
           /\ use_local' = l.use_local
           /\ step_n' = n
    /\ pc' = "top"
    /\ err' = "none"
    /\ result' = NoTasks
    /\ in_progress' = {}
    /\ engine_ret' = "n/a"
    /\ g' = [proposed |-> 0, backtested |-> 0]
    /\ resumes' = resumes + 1
    /\ proc' = Process("factor_backtest", "session", "None", TRUE)
    /\ UNCHANGED <<summary, exec, impl, batch, STOP_EVENT, ev_set, session, invoked, stop_at, g_saved>>

BtNext ==
    \/ RunCeiling
    \/ BtStepBegin
    \/ BtWorkerDone
    \/ BtStepReturn
    \/ Save
    \/ BtSkipLoop
    \/ Crash
    \/ BtResume

BacktestSpec == BtInit /\ [][BtNext]_vars

\* ----------------------------------------------------- implement_one_task

\* Largest number of entries in a queried knowledge list.
MaxCtx == 4

\* for _ in range(10): the rounds of the trimming loop.
MaxTrimRounds == 10

\* for _ in range(10): the attempts of the decode loop.
MaxDecodeAttempts == 10

Strategies == {"FactorParsingStrategy", "FactorMultiProcessEvolvingStrategy"}

\* queried_knowledge: None, a CoSTEERQueriedKnowledge, a CoSTEERQueriedKnowledgeV2.
KnowledgeKinds == {"None", "V1", "V2"}

\* What a structured oracle call hands back: text that is no JSON, a JSON
\* object with the requested field, a JSON object without it.
OracleResponses == {"malformed", "ok", "nofield"}

\* A queried list of n entries, in the order the knowledge base returned them.
Entries(n) == [i \in 1..n |-> i]

\* The task: its expression and its name.
target_task == [factor_expression |-> "task_expr", factor_name |-> "task_name"]

\* code_template.render(expression=..., factor_name=...)
render(expression, factor_name) ==
    [kind |-> "code", expression |-> expression, factor_name |-> factor_name]

\* The lists a call starts from. Without knowledge all three are empty; only
\* a V2 knowledge has similar-error entries.
QueriedLists ==
    {[knowledge |-> k, former |-> Entries(nf), succ |-> Entries(ns), errs |-> Entries(ne)] :
        k \in KnowledgeKinds, nf \in 0..MaxCtx, ns \in 0..MaxCtx, ne \in 0..MaxCtx}

Queried ==
    {q \in QueriedLists :
        /\ q.knowledge = "None" => Len(q.former) = 0 /\ Len(q.succ) = 0
        /\ q.knowledge # "V2" => Len(q.errs) = 0}

\* What a call hands back: nothing yet, None, a text.
Pending == [kind |-> "pending"]

ReturnedNone == [kind |-> "None"]

Text(t) == [kind |-> "text", text |-> t]

NoPrompt == [rendered |-> FALSE, former |-> <<>>, succ |-> <<>>, errs |-> <<>>,
             under |-> FALSE]

NewCall(strategy, q, flag) ==
    [pc |-> "entry", strategy |-> strategy, knowledge |-> q.knowledge,
     v2_error_summary |-> flag,
     queried |-> [former |-> q.former, succ |-> q.succ, errs |-> q.errs],
     former |-> q.former, succ |-> q.succ, errs |-> q.errs,
     round |-> 0, trims |-> 0, prompt |-> NoPrompt, summaries |-> 0,
     calls |-> 0, last |-> "none", ret |-> Pending, err |-> "none"]

\* The workflow loop at rest while one call is followed.
AtRest ==
    /\ pc = "top"
    /\ loop_idx = 0
    /\ step_idx = 0
    /\ loop_prev_out = EmptyOut
    /\ trace = <<>>
    /\ use_local = TRUE
    /\ STOP_EVENT = "None"
    /\ ev_set = FALSE
    /\ step_n = NoCeiling
    /\ session = <<>>
    /\ err = "none"
    /\ result = NoTasks
    /\ in_progress = {}
    /\ invoked = NoInvocation
    /\ stop_at = NoStop
    /\ engine_ret = "n/a"
    /\ g = [fb_done |-> 0, ncompleted |-> 0, last_ret |-> <<>>]
    /\ g_saved = g
    /\ resumes = 0
    /\ proc = Mining

ImplInit ==
    /\ AtRest
    /\ exec = NoExecute
    /\ summary = NoSummary
    /\ batch = NoBatch
    /\ impl \in {NewCall(st, q, fl) : st \in Strategies, q \in Queried, fl \in BOOLEAN}

\* if len(queried_former_failed_knowledge) == 0: render the template.
TemplateFirst_without_knowledge(strategy, knowledge, former) ==
    strategy = "FactorParsingStrategy" /\ knowledge = "None"

TemplateFirst(strategy, knowledge, former) ==
    strategy = "FactorParsingStrategy" /\ Len(former) = 0

\* The condition under which a round asks the oracle for an error summary.
WantsSummary(knowledge, flag, former, errs) ==
    knowledge = "V2" /\ flag /\ Len(errs) # 0 /\ Len(former) # 0

\* The chain written as three independent ifs: every set whose condition
\* holds loses an entry in the same round.
Trim_every_set(former, succ, errs) ==
    [former |-> IF Len(former) > 1 THEN Tail(former) ELSE former,
     succ |-> IF Len(succ) > Len(errs) THEN SubSeq(succ, 1, Len(succ) - 1) ELSE succ,
     errs |-> IF Len(errs) > 0 THEN SubSeq(errs, 1, Len(errs) - 1) ELSE errs]

\* The elif chain in which the former-failed list is cut while it has any
\* entry at all.
Trim_to_empty(former, succ, errs) ==
    IF Len(former) > 0
    THEN [former |-> Tail(former), succ |-> succ, errs |-> errs]
    ELSE IF Len(succ) > Len(errs)
    THEN [former |-> former, succ |-> SubSeq(succ, 1, Len(succ) - 1), errs |-> errs]
    ELSE IF Len(errs) > 0
    THEN [former |-> former, succ |-> succ, errs |-> SubSeq(errs, 1, Len(errs) - 1)]
    ELSE [former |-> former, succ |-> succ, errs |-> errs]

\* The elif chain of an over-budget round.
Trim_newest_former(former, succ, errs) ==
    IF Len(former) > 1
    THEN [former |-> SubSeq(former, 1, Len(former) - 1), succ |-> succ, errs |-> errs]
    ELSE IF Len(succ) > Len(errs)
    THEN [former |-> former, succ |-> SubSeq(succ, 1, Len(succ) - 1), errs |-> errs]
    ELSE IF Len(errs) > 0
    THEN [former |-> former, succ |-> succ, errs |-> SubSeq(errs, 1, Len(errs) - 1)]
    ELSE [former |-> former, succ |-> succ, errs |-> errs]

Trim_keeps_errors(former, succ, errs) ==
    IF Len(former) > 1
    THEN [former |-> Tail(former), succ |-> succ, errs |-> errs]
    ELSE IF Len(succ) > Len(errs)
    THEN [former |-> former, succ |-> SubSeq(succ, 1, Len(succ) - 1), errs |-> errs]
    ELSE [former |-> former, succ |-> succ, errs |-> errs]

Trim(former, succ, errs) ==
    IF Len(former) > 1
    THEN [former |-> Tail(former), succ |-> succ, errs |-> errs]
    ELSE IF Len(succ) > Len(errs)
    THEN [former |-> former, succ |-> SubSeq(succ, 1, Len(succ) - 1), errs |-> errs]
    ELSE IF Len(errs) > 0
    THEN [former |-> former, succ |-> succ, errs |-> SubSeq(errs, 1, Len(errs) - 1)]
    ELSE [former |-> former, succ |-> succ, errs |-> errs]

\* x_to_render = x_to_render[1:] and x_to_render[:-1]: a slice is a new list
\* bound to the local name; the lists the queried knowledge holds stay as
\* they are.
QueriedAfterTrim_in_place(queried, trimmed) == trimmed

QueriedAfterTrim(queried, trimmed) == queried

\* for _ in range(10): another round after `round` rounds.
TrimLoopGoesOn_unbounded(round) == TRUE

TrimLoopGoesOn(round) == round < MaxTrimRounds

\* for _ in range(10): another attempt after `calls` attempts.
DecodeLoopGoesOn_eleven(calls) == calls <= MaxDecodeAttempts

DecodeLoopGoesOn(calls) == calls < MaxDecodeAttempts

\* json.loads(response)[field]: what it raises, if anything.
LoadsField(resp) ==
    CASE resp = "malformed" -> "JSONDecodeError"
      [] resp = "nofield"   -> "KeyError"
      [] resp = "ok"        -> "none"

\* except json.decoder.JSONDecodeError: pass
Caught(exc) == exc = "JSONDecodeError"

\* What the call returns when the decode loop runs out: the for loop's else
\* returns "" in FactorMultiProcessEvolvingStrategy; FactorParsingStrategy
\* has no else and falls off the end of the function.
ExhaustedReturn(strategy) ==
    IF strategy = "FactorMultiProcessEvolvingStrategy" THEN Text("") ELSE ReturnedNone

\* What the call returns on a decoded response.
DecodedReturn(strategy) ==
    IF strategy = "FactorMultiProcessEvolvingStrategy"
    THEN Text("oracle_code")
    ELSE render("oracle_expr", target_task.factor_name)

\* implement_one_task up to the trimming loop: the lists are read from the
\* knowledge (FactorMultiProcessEvolvingStrategy reads
\* queried_knowledge.task_to_former_failed_traces without testing for None),
\* and FactorParsingStrategy returns the rendered template when there is no
\* former failure.
ImplEntry ==
    /\ impl.pc = "entry"
    /\ impl' =
        IF impl.strategy = "FactorMultiProcessEvolvingStrategy" /\ impl.knowledge = "None"
        THEN [impl EXCEPT !.pc = "raised", !.err = "AttributeError"]
        ELSE IF TemplateFirst(impl.strategy, impl.knowledge, impl.former)
        THEN [impl EXCEPT !.pc = "done",
                          !.ret = render(target_task.factor_expression,
                                         target_task.factor_name)]
        ELSE [impl EXCEPT !.pc = "trim"]
    /\ UNCHANGED <<summary, exec, loop_vars, batch>>

\* One round of the trimming loop: the error summary if it applies (one
\* free-form oracle call), the render, the token estimate, then the break or
\* the elif chain. The estimate is the backend's count over the rendered
\* text, the oracle's summary included: either outcome in every round.
\* FactorParsingStrategy renders queried_former_failed_knowledge_to_render[-1].
TrimRound ==
    /\ impl.pc = "trim"
    /\ IF impl.strategy = "FactorParsingStrategy" /\ Len(impl.former) = 0
       THEN impl' = [impl EXCEPT !.pc = "raised", !.err = "IndexError"]
       ELSE \E under \in BOOLEAN :
            LET t == Trim(impl.former, impl.succ, impl.errs)
                shrunk == t # [former |-> impl.former, succ |-> impl.succ,
                               errs |-> impl.errs]
                rendered == [impl EXCEPT
                    !.summaries = @ + (IF WantsSummary(impl.knowledge,
                                                       impl.v2_error_summary,
                                                       impl.former, impl.errs)
                                       THEN 1 ELSE 0),
                    !.prompt = [rendered |-> TRUE, former |-> impl.former,
                                succ |-> impl.succ, errs |-> impl.errs,
                                under |-> under],
                    !.round = @ + 1]
            IN impl' =
                IF under
                THEN [rendered EXCEPT !.pc = "decode"]
                ELSE [rendered EXCEPT
                        !.former = t.former, !.succ = t.succ, !.errs = t.errs,
                        !.queried = QueriedAfterTrim(impl.queried, t),
                        !.trims = @ + (IF shrunk THEN 1 ELSE 0),
                        !.pc = IF TrimLoopGoesOn(impl.round + 1)
                               THEN "trim" ELSE "decode"]
    /\ UNCHANGED <<summary, exec, loop_vars, batch>>

\* One attempt of the decode loop: a structured oracle call, json.loads and
\* the field lookup. A caught error goes on to the next attempt; any other
\* error leaves the call.
DecodeAttempt ==
    /\ impl.pc = "decode"
    /\ \E resp \in OracleResponses :
        LET exc == LoadsField(resp)
            called == [impl EXCEPT !.calls = @ + 1, !.last = resp]
        IN impl' =
            IF exc = "none"
            THEN [called EXCEPT !.pc = "done", !.ret = DecodedReturn(impl.strategy)]
            ELSE IF ~Caught(exc)
            THEN [called EXCEPT !.pc = "raised", !.err = exc]
            ELSE IF DecodeLoopGoesOn(impl.calls + 1)
            THEN called
            ELSE [called EXCEPT !.pc = "done", !.ret = ExhaustedReturn(impl.strategy)]
    /\ UNCHANGED <<summary, exec, loop_vars, batch>>

ImplNext ==
    \/ ImplEntry
    \/ TrimRound
    \/ DecodeAttempt

ImplSpec == ImplInit /\ [][ImplNext]_vars

\* ----------------------------------------------------------------- evolve

AllStrategies == Strategies \cup {"FactorRunningStrategy"}

\* The oracle a call talks to: every response valid, every response
\* malformed, every response valid but without the requested field, the
\* first response malformed and the later ones valid.
OracleStubs == {"ok", "malformed", "nofield", "flaky"}

\* The response to the k-th structured call.
Respond(stub, k) ==
    CASE stub = "ok"        -> "ok"
      [] stub = "malformed" -> "malformed"
      [] stub = "nofield"   -> "nofield"
      [] stub = "flaky"     -> IF k = 1 THEN "malformed" ELSE "ok"

\* The text a call's return value puts in code_list: None, the text itself,
\* the template rendered with the task's own expression or with the
\* expression the oracle corrected.
CodeText(ret) ==
    CASE ret.kind = "None" -> "None"
      [] ret.kind = "text" -> ret.text
      [] ret.kind = "code" -> IF ret.expression = target_task.factor_expression
                              THEN "tmpl" ELSE "fixed"

\* What one call did: the path it took, its structured oracle calls, the
\* text it returned or the error it raised.
Returned(path, calls, ret) == [path |-> path, calls |-> calls, ret |-> ret, err |-> "none"]

Raised(path, calls, exc) == [path |-> path, calls |-> calls, ret |-> "n/a", err |-> exc]

NotRun == [path |-> "none", calls |-> 0, ret |-> "n/a", err |-> "none"]

\* The decode loop against a stub, after `calls` attempts.
RECURSIVE Decode(_, _, _)
Decode(strategy, stub, calls) ==
    LET exc == LoadsField(Respond(stub, calls + 1))
    IN  IF exc = "none"
        THEN Returned("oracle", calls + 1, CodeText(DecodedReturn(strategy)))
        ELSE IF ~Caught(exc)
        THEN Raised("oracle", calls + 1, exc)
        ELSE IF DecodeLoopGoesOn(calls + 1)
        THEN Decode(strategy, stub, calls + 1)
        ELSE Returned("oracle", calls + 1, CodeText(ExhaustedReturn(strategy)))

\* implement_one_task from entry to exit, for a task with the given
\* former-failed entries: what the call can do, over the oracle stubs.
implement_one_task(strategy, task, knowledge, former) ==
    IF strategy = "FactorRunningStrategy"
    THEN {Returned("template", 0, running_implement_one_task(task))}
    ELSE IF strategy = "FactorMultiProcessEvolvingStrategy" /\ knowledge = "None"
    THEN {Raised("none", 0, "AttributeError")}
    ELSE IF TemplateFirst(strategy, knowledge, former)
    THEN {Returned("template", 0,
                   CodeText(render(target_task.factor_expression,
                                   target_task.factor_name)))}
    ELSE {Decode(strategy, stub, 0) : stub \in OracleStubs}

\* multiprocessing_wrapper: the list of the calls' results, in the order of
\* the calls whatever the order they finished in. A call that raised is
\* isolated: its entry is None.
multiprocessing_wrapper(outcome, order) ==
    [index \in DOMAIN outcome |->
        IF outcome[index].err # "none" THEN "None" ELSE outcome[index].ret]

\* The workspace slots of an item that has been evolved before: no workspace
\* yet, or the task's workspace with the code of an earlier round.
PriorSlots ==
    [1..NumTasks -> {"None", "old"}]

PriorItem(slots) ==
    [kind |-> "evo", loop |-> 0, hyp |-> 0,
     sub_tasks |-> [i \in 1..NumTasks |-> i],
     sub_workspace_list |->
        [i \in 1..NumTasks |->
            IF slots[i] = "None" THEN NoWorkspace
            ELSE inject_code(FactorFBWorkspace(i), slots[i])],
     corresponding_selection |-> <<>>]

\* The former-failed entries of each task of the batch: none, or one failed
\* attempt. Without knowledge no task has any.
Histories(knowledge) ==
    IF knowledge = "None"
    THEN {[i \in 1..NumTasks |-> Entries(0)]}
    ELSE [1..NumTasks -> {Entries(0), Entries(1)}]

NewBatch(strategy, knowledge, former, slots) ==
    [pc |-> "start", strategy |-> strategy, knowledge |-> knowledge,
     former |-> former, before |-> PriorItem(slots),
     result |-> NoTasks, outcome |-> [i \in 1..NumTasks |-> NotRun],
     order |-> <<>>, after |-> PriorItem(slots)]

EvolveInit ==
    /\ AtRest
    /\ exec = NoExecute
    /\ summary = NoSummary
    /\ impl = NoCall
    /\ batch \in {NewBatch(st, k, f, sl) :
                    st \in AllStrategies, k \in KnowledgeKinds,
                    f \in Histories("V2"), sl \in PriorSlots}
    /\ batch.former \in Histories(batch.knowledge)

\* evolve: one implement_one_task call per task goes to the worker pool.
EvolveDispatch ==
    /\ batch.pc = "start"
    /\ batch' = [batch EXCEPT !.pc = "running",
                              !.result = [i \in 1..NumTasks |-> "pending"]]
    /\ UNCHANGED <<summary, exec, loop_vars, impl>>

\* queried_knowledge.task_to_former_failed_traces[target_factor_task_information][0]:
\* the former-failed entries stored under the task's own key.
task_to_former_failed_traces_first_key(former, task) == former[1]

task_to_former_failed_traces(former, task) == former[task]

\* The item while the pool is at work, in an evolve that assigns each result
\* to its slot as soon as it is there.
ItemWhileCollecting_eager(item, index, outcome) ==
    IF outcome.err # "none" THEN item
    ELSE [item EXCEPT !.sub_workspace_list[index] =
            inject_code(FactorFBWorkspace(item.sub_tasks[index]), outcome.ret)]

\* The item while the pool is at work: the calls handed to the pool are
\* (implement_one_task, (task, queried_knowledge)); evolve writes nothing to
\* the item before the result list is back.
ItemWhileCollecting(item, index, outcome) == item

\* One worker finishes its call.
EvolveWorker(i) ==
    /\ batch.pc = "running"
    /\ batch.outcome[i] = NotRun
    /\ \E o \in implement_one_task(batch.strategy, batch.before.sub_tasks[i],
                                   batch.knowledge,
                                   task_to_former_failed_traces(
                                       batch.former, batch.before.sub_tasks[i])) :
        batch' = [batch EXCEPT !.outcome[i] = o, !.order = Append(@, i),
                               !.after = ItemWhileCollecting(@, i, o)]
    /\ UNCHANGED <<summary, exec, loop_vars, impl>>

EvolveWorkerDone == \E i \in 1..NumTasks : EvolveWorker(i)

\* evolve: the pool hands back the result list; the results are collected by
\* index and assigned to the item.
EvolveAssign ==
    /\ batch.pc = "running"
    /\ \A i \in 1..NumTasks : batch.outcome[i] # NotRun
    /\ LET result_list == multiprocessing_wrapper(batch.outcome, batch.order)
       IN batch' = [batch EXCEPT !.pc = "done",
                                 !.result = result_list,
                                 !.after = evolve(batch.before, result_list)]
    /\ UNCHANGED <<summary, exec, loop_vars, impl>>

EvolveNext ==
    \/ EvolveDispatch
    \/ EvolveWorkerDone
    \/ EvolveAssign

EvolveSpec == EvolveInit /\ [][EvolveNext]_vars

\* ------------------------------------------------------------- properties

\* The transition that is main(path=...) loading a session in a new process.
IsResume == pc \in {"crashed", "finished", "terminated"} /\ pc' = "top"

\* The order of the steps as the specification states it.
ClaimedOrder == <<"factor_propose", "factor_construct", "factor_calculate",
                  "factor_backtest", "feedback">>

\* C1: the steps of an iteration run in the order propose, construct,
\* synthesize (factor_calculate), execute (factor_backtest), feedback; a step
\* starts only after its predecessor in the same iteration has returned, and
\* at most one step body is in progress at any time.
C1_StepsInOrderNoOverlap ==
    /\ Cardinality(in_progress) <= 1
    /\ pc # "body" => in_progress = {}
    /\ pc = "body" =>
        /\ in_progress = {<<loop_idx, ClaimedOrder[step_idx + 1]>>}
        /\ StepName(step_idx) = ClaimedOrder[step_idx + 1]
        /\ step_idx > 0 => g.last_ret = <<loop_idx, ClaimedOrder[step_idx]>>

C1_Witness ==
    /\ pc = "body"
    /\ loop_idx = 1
    /\ in_progress = {<<1, "feedback">>}
    /\ g.last_ret = <<1, "factor_backtest">>

\* C2: a step invoked with the cancellation flag set raises the cancellation
\* error and its body does not run; a body runs only if the flag was clear
\* when the step was invoked.
C2_FlagSetMeansNoBody ==
    /\ pc = "body" => ~invoked.flag
    /\ invoked.flag =>
        /\ pc \in {"raised", "terminated", "crashed"}
        /\ err = "Exception"
        /\ in_progress = {}

C2_Witness ==
    /\ invoked.flag
    /\ invoked.step = "factor_backtest"
    /\ pc = "raised"
    /\ err = "Exception"

\* C3: the flag set after iteration k's feedback passed its check and before
\* iteration k+1 begins: iteration k's feedback is not cut short (once it is
\* over, k's triple is the last entry of the Trace) and no body of iteration
\* k+1, its propose included, ever runs.
C3_CancellationBoundary ==
    stop_at.window \in {"feedback", "boundary"} =>
        /\ pc = "body" => loop_idx = stop_at.loop /\ StepName(step_idx) = "feedback"
        /\ in_progress \subseteq {<<stop_at.loop, "feedback">>}
        /\ pc \in {"top", "save", "raised", "finished", "terminated"} =>
            /\ loop_idx = stop_at.loop + 1
            /\ step_idx = 0
            /\ Len(trace) > 0
            /\ trace[Len(trace)][1].loop = stop_at.loop
            /\ trace[Len(trace)][2].loop = stop_at.loop

C3_Witness ==
    /\ stop_at = [loop |-> 0, window |-> "feedback"]
    /\ pc = "terminated"
    /\ invoked = [loop |-> 1, step |-> "factor_propose", flag |-> TRUE]
    /\ Len(trace) = 1

\* C4: a cancellation error is not skipped: the loop stays at the step that
\* raised it, no body runs after it, and the run ends with a final checkpoint
\* of the state it ended in.
C4_CancellationEndsRun ==
    invoked.flag =>
        /\ pc \in {"raised", "terminated", "crashed"}
        /\ loop_idx = invoked.loop
        /\ StepName(step_idx) = invoked.step
        /\ in_progress = {}
        /\ pc = "terminated" => err = "Exception" /\ session = Checkpoint

C4_Witness ==
    /\ pc = "terminated"
    /\ err = "Exception"
    /\ invoked = [loop |-> 0, step |-> "factor_calculate", flag |-> TRUE]
    /\ session = Checkpoint

\* C5: the no-result sentinel in factor_backtest raises FactorEmptyError; the
\* loop then moves to step 0 of the next iteration with the Trace as it was,
\* without ending the run; feedback runs only on the result of a backtest of
\* its own iteration.
C5_Feedback_needs_result ==
    /\ pc = "body" /\ StepName(step_idx) = "feedback" =>
        /\ Has(loop_prev_out, "factor_backtest")
        /\ loop_prev_out["factor_backtest"].loop = loop_idx
        /\ loop_prev_out["factor_backtest"].value # "None"
    /\ pc = "raised" /\ engine_ret = "None" => err = "FactorEmptyError"

C5_NoResultRaises ==
    (/\ pc = "body"
     /\ StepName(step_idx) = "factor_backtest"
     /\ pc' \notin {"body", "crashed"}
     /\ engine_ret' = "None")
    => (pc' = "raised" /\ err' = "FactorEmptyError" /\ trace' = trace
        /\ loop_idx' = loop_idx /\ loop_prev_out' = loop_prev_out)

C5_SkipAdvances ==
    (pc = "raised" /\ err = "FactorEmptyError" /\ pc' \notin {"raised", "crashed"})
    => (pc' = "top" /\ loop_idx' = loop_idx + 1 /\ step_idx' = 0 /\ trace' = trace)

C5_NoResultSkipsIteration ==
    /\ []C5_Feedback_needs_result
    /\ [][C5_NoResultRaises]_vars
    /\ [][C5_SkipAdvances]_vars

C5_Witness ==
    /\ engine_ret = "None"
    /\ pc = "top"
    /\ loop_idx = 1
    /\ StepName(step_idx) = "factor_propose"
    /\ trace = <<>>
    /\ g.last_ret = <<0, "factor_calculate">>

\* C6: the Trace starts empty and only grows by one triple at the end, the
\* triple of the hypothesis and the result of the iteration whose feedback
\* completes; its length is the number of completed feedback steps. (Loading
\* a session replaces the Trace by the stored one.)
C6_TraceShape ==
    /\ Len(trace) = g.fb_done
    /\ \A i \in 1..Len(trace) :
        /\ trace[i][1].kind = "hyp"
        /\ trace[i][2].kind = "exp"
        /\ trace[i][3].kind = "fb"
        /\ trace[i][2].loop = trace[i][1].loop
        /\ trace[i][3].seen = i - 1
        /\ i > 1 => trace[i - 1][1].loop < trace[i][1].loop

C6_Appends ==
    \/ IsResume
    \/ trace' = trace
    \/ /\ pc = "body"
       /\ StepName(step_idx) = "feedback"
       /\ Len(trace') = Len(trace) + 1
       /\ SubSeq(trace', 1, Len(trace)) = trace
       /\ trace'[Len(trace')][1] = loop_prev_out["factor_propose"]
       /\ trace'[Len(trace')][2] = loop_prev_out["factor_backtest"]
       /\ trace'[Len(trace')][1].loop = loop_idx
       /\ trace'[Len(trace')][2].loop = loop_idx

C6_TraceAppendOnly ==
    /\ []C6_TraceShape
    /\ [][C6_Appends]_vars

C6_Witness ==
    /\ Len(trace) = 2
    /\ g.fb_done = 2
    /\ trace[2][1].loop = 1

\* C7: only the feedback step changes the Trace; propose, construct,
\* synthesize with its workers and execute leave it as it was. (Loading a
\* session replaces the Trace by the stored one.)
C7_OnlyFeedbackWritesTrace ==
    [][trace' # trace =>
        \/ pc = "body" /\ StepName(step_idx) = "feedback"
        \/ IsResume]_vars

C7_Witness ==
    /\ Len(trace) = 1
    /\ pc = "save"
    /\ g.last_ret = <<1, "factor_calculate">>
    /\ loop_prev_out["factor_calculate"].sub_workspace_list[1] =
            inject_code(FactorFBWorkspace(1), "tmpl")

\* C8: when a step body starts, the output dictionary holds an entry made in
\* this iteration for every earlier step of the iteration, so no step ever
\* misses a key it reads or reads one left from an earlier iteration.
C8_OutputsOfThisIteration ==
    /\ err # "KeyError"
    /\ pc = "body" =>
        \A j \in 0..(step_idx - 1) :
            /\ Has(loop_prev_out, StepName(j))
            /\ loop_prev_out[StepName(j)].loop = loop_idx

C8_Witness ==
    /\ pc = "body"
    /\ loop_idx = 1
    /\ StepName(step_idx) = "factor_construct"
    /\ resumes = 1
    /\ Has(loop_prev_out, "factor_calculate")
    /\ loop_prev_out["factor_calculate"].loop = 0

\* C9: a checkpoint follows every completed step: outside the moment between
\* a step's return and its checkpoint, the latest checkpoint holds every step
\* completed so far, and in that moment it misses exactly one.
C9_CheckpointAfterEveryStep ==
    /\ pc \in {"top", "body", "raised", "finished", "terminated"} =>
        /\ g_saved = g
        /\ g.ncompleted > 0 =>
            /\ session # <<>>
            /\ LoopBase_load(session).trace = trace
    /\ pc = "save" => g.ncompleted = g_saved.ncompleted + 1
    /\ g.ncompleted - g_saved.ncompleted \in {0, 1}

C9_Witness ==
    /\ pc = "body"
    /\ StepName(step_idx) = "factor_calculate"
    /\ g.ncompleted = 2
    /\ g_saved = g
    /\ session = Checkpoint

Pos(li, si) == li * Len(steps) + si

\* The place of the last step that completed (-1: none yet).
LastCompletedPos ==
    IF g.last_ret = <<>> THEN -1
    ELSE Pos(g.last_ret[1],
             CHOOSE si \in 0..(Len(steps) - 1) : StepName(si) = g.last_ret[2])

C12_Ends ==
    /\ step_n # NoCeiling => step_n >= 0
    /\ pc = "finished" => step_n = 0
    /\ pc = "terminated" => err = "Exception" /\ FlagNow
    /\ (pc = "top" /\ step_n = NoCeiling /\ ~FlagNow /\ loop_idx < MaxLoop)
        => ENABLED StepBegin

C12_StepTakesOneOff ==
    /\ (pc = "top" /\ pc' \in {"body", "raised"} /\ step_n # NoCeiling)
        => step_n' = step_n - 1
    /\ (step_n' # step_n /\ ~IsResume)
        => (pc = "top" /\ pc' \in {"body", "raised"} /\ step_n' = step_n - 1)

C12_LeavesOnlyBy ==
    (Live /\ pc' \notin {"top", "body", "save", "raised"}) =>
        \/ pc' = "finished" /\ step_n = 0
        \/ pc' = "terminated" /\ err = "Exception" /\ FlagNow
        \/ pc' = "crashed"

C13_SinglePass ==
    /\ g.proposed <= 1
    /\ g.backtested <= 1
    /\ (pc = "body" /\ BtStepName(step_idx) = "factor_propose") => g.backtested = 0

\* A second hypothesis in one run of BacktestLoop, after a backtest without
\* a result.
C13_SecondPass ==
    /\ pc = "body"
    /\ loop_idx = 1
    /\ BtStepName(step_idx) = "factor_propose"
    /\ g = [proposed |-> 2, backtested |-> 1]
    /\ resumes = 0

\* The number of entries in the three context lists of the call.
ContextSize(c) == Len(c.former) + Len(c.succ) + Len(c.errs)

\* C14: the trimming loop ends within its 10 rounds (each round counts, and
\* no round starts after the tenth), and from one round to the next no
\* context list grows, so the total context does not grow.
C14_RoundsBounded ==
    /\ impl.round <= MaxTrimRounds
    /\ impl.pc = "trim" => impl.round < MaxTrimRounds
    /\ impl.trims <= impl.round

C14_NoGrowth ==
    /\ Len(impl'.former) <= Len(impl.former)
    /\ Len(impl'.succ) <= Len(impl.succ)
    /\ Len(impl'.errs) <= Len(impl.errs)
    /\ ContextSize(impl') <= ContextSize(impl)
    /\ (impl.pc = "trim" /\ impl' # impl) => impl'.round = impl.round + 1

C14_TrimmingTerminates ==
    /\ []C14_RoundsBounded
    /\ [][C14_NoGrowth]_vars

C14_Witness ==
    /\ impl.pc = "decode"
    /\ impl.round = MaxTrimRounds
    /\ impl.trims = MaxTrimRounds
    /\ ~impl.prompt.under
    /\ ContextSize(impl) = 1

\* C15: an over-budget round drops the first former-failed entry if more
\* than one remains; otherwise the last successful entry if the successful
\* entries outnumber the similar-error entries; otherwise the last
\* similar-error entry if there is one; and touches nothing else.
C15_OverBudgetRound ==
    (impl.pc = "trim" /\ impl'.pc # "raised" /\ impl' # impl /\ ~impl'.prompt.under) =>
        IF Len(impl.former) > 1
        THEN /\ impl'.former = Tail(impl.former)
             /\ impl'.succ = impl.succ
             /\ impl'.errs = impl.errs
        ELSE IF Len(impl.succ) > Len(impl.errs)
        THEN /\ impl'.former = impl.former
             /\ impl'.succ = SubSeq(impl.succ, 1, Len(impl.succ) - 1)
             /\ impl'.errs = impl.errs
        ELSE IF Len(impl.errs) > 0
        THEN /\ impl'.former = impl.former
             /\ impl'.succ = impl.succ
             /\ impl'.errs = SubSeq(impl.errs, 1, Len(impl.errs) - 1)
        ELSE /\ impl'.former = impl.former
             /\ impl'.succ = impl.succ
             /\ impl'.errs = impl.errs

C15_TrimPriority == [][C15_OverBudgetRound]_vars

C15_Witness ==
    /\ impl.pc = "trim"
    /\ impl.trims = 4
    /\ impl.former = <<3>>
    /\ impl.succ = <<1>>
    /\ impl.errs = <<1>>

\* No context list of the call can shrink further.
CannotShrink(c) ==
    /\ Len(c.former) <= 1
    /\ Len(c.succ) <= Len(c.errs)
    /\ Len(c.errs) = 0

\* C16 as stated: the request goes to the oracle only when it is under
\* budget or no list can shrink further, so an over-budget request comes
\* with at most one former-failed entry, no more successful than
\* similar-error entries and no similar-error entry.
C16_OverBudgetMeansMinimal ==
    (impl.pc = "decode" /\ ~impl.prompt.under) => CannotShrink(impl)

\* C16, amended: the request goes to the oracle at the first under-budget
\* round, with the lists it was rendered from, or when the 10 rounds are
\* used up; an over-budget request comes after 10 rounds, in each of which
\* an entry was dropped unless no list could shrink further.
C16_HandedOver ==
    /\ (impl.pc = "decode" /\ impl.prompt.under) =>
        /\ impl.prompt.former = impl.former
        /\ impl.prompt.succ = impl.succ
        /\ impl.prompt.errs = impl.errs
    /\ (impl.pc = "decode" /\ ~impl.prompt.under) =>
        /\ impl.round = MaxTrimRounds
        /\ impl.trims = MaxTrimRounds \/ CannotShrink(impl)
    /\ impl.pc = "trim" => (impl.prompt.rendered => ~impl.prompt.under)

C16_FirstUnderBudgetRound ==
    (impl.pc = "trim" /\ impl'.pc # "raised" /\ impl' # impl) =>
        /\ impl'.prompt.under => impl'.pc = "decode"
        /\ impl'.pc = "decode" => (impl'.prompt.under \/ impl'.round = MaxTrimRounds)

C16_ReturnSituations ==
    /\ []C16_HandedOver
    /\ [][C16_FirstUnderBudgetRound]_vars

C16_Witness ==
    /\ impl.pc = "decode"
    /\ ~impl.prompt.under
    /\ impl.round = MaxTrimRounds
    /\ impl.trims = MaxTrimRounds
    /\ ~CannotShrink(impl)
    /\ impl.prompt.errs # impl.errs

\* C17: under FactorParsingStrategy a task without former-failed knowledge
\* (without any knowledge, too) gets the template rendered with its own
\* expression and name, with no error-summary call and no structured call.
C17_TemplateFirst ==
    (/\ impl.strategy = "FactorParsingStrategy"
     /\ Len(impl.former) = 0
     /\ impl.pc # "entry")
    => /\ impl.pc = "done"
       /\ impl.err = "none"
       /\ impl.ret = render(target_task.factor_expression, target_task.factor_name)
       /\ impl.calls = 0
       /\ impl.summaries = 0
       /\ ~impl.prompt.rendered

C17_Witness ==
    /\ impl.strategy = "FactorParsingStrategy"
    /\ impl.knowledge = "V2"
    /\ impl.v2_error_summary
    /\ Len(impl.former) = 0
    /\ Len(impl.succ) = 2
    /\ Len(impl.errs) = 2
    /\ impl.pc = "done"
    /\ impl.ret = render("task_expr", "task_name")

\* C18: when every structured response is malformed the call makes exactly
\* 10 structured oracle calls, then returns the empty text or None, and
\* raises nothing.
C18_BoundedDecodeRetries ==
    /\ impl.calls <= MaxDecodeAttempts
    /\ impl.last = "malformed" =>
        /\ impl.pc \in {"decode", "done"}
        /\ impl.err = "none"
        /\ impl.pc = "decode" => impl.calls < MaxDecodeAttempts /\ impl.ret = Pending
        /\ impl.pc = "done" =>
            /\ impl.calls = MaxDecodeAttempts
            /\ impl.ret \in {Text(""), ReturnedNone}

C18_Witness ==
    /\ impl.strategy = "FactorParsingStrategy"
    /\ impl.pc = "done"
    /\ impl.last = "malformed"
    /\ impl.calls = MaxDecodeAttempts
    /\ impl.ret = ReturnedNone
    /\ impl.err = "none"

\* C19: a valid response without the requested field makes the decode loop
\* return None without raising.
C19_MissingFieldReturnsNone ==
    impl.last = "nofield" =>
        /\ impl.pc = "done"
        /\ impl.ret = ReturnedNone
        /\ impl.err = "none"

\* The call after a valid response without the requested field: the lookup's
\* KeyError has left the decode loop and the call, and nothing is returned.
C19_Witness ==
    /\ impl.pc = "raised"
    /\ impl.err = "KeyError"
    /\ impl.last = "nofield"
    /\ impl.calls = 3
    /\ impl.ret = Pending

\* C20: a task whose implement call returned None or the empty text keeps
\* its workspace slot through evolve: an empty slot stays empty and a filled
\* slot keeps its code.
C20_CarryForward ==
    batch.pc = "done" =>
        \A i \in 1..NumTasks :
            batch.result[i] \in {"None", ""} =>
                batch.after.sub_workspace_list[i] = batch.before.sub_workspace_list[i]

\* An evolve in which an empty result replaced the code of a filled slot and
\* made a workspace for an empty one.
C20_Witness ==
    /\ batch.pc = "done"
    /\ batch.strategy = "FactorMultiProcessEvolvingStrategy"
    /\ batch.before.sub_workspace_list[1] = inject_code(FactorFBWorkspace(1), "old")
    /\ batch.before.sub_workspace_list[2] = NoWorkspace
    /\ batch.result[1] = "" /\ batch.result[2] = ""
    /\ batch.after.sub_workspace_list[1] = inject_code(FactorFBWorkspace(1), "")
    /\ batch.after.sub_workspace_list[2] = inject_code(FactorFBWorkspace(2), "")

\* The slot task i ends with, given what its own call did: untouched after
\* no result, otherwise the task's workspace holding the returned text.
MergedSlot(i) ==
    LET o == batch.outcome[i]
        prior == batch.before.sub_workspace_list[i]
    IN  IF o.err # "none" \/ o.ret = "None"
        THEN prior
        ELSE [kind |-> "ws", target_task |-> batch.before.sub_tasks[i], code |-> o.ret]

\* C21: the item evolve returns does not depend on the order in which the
\* workers finish: whatever the order, slot i ends with the result of task
\* i's own call and the tasks stay as they were; and the item is not written
\* while calls are still running, so nobody sees a slot half written.
C21_IndexOrderMerge ==
    /\ batch.pc = "done" =>
        /\ \A i \in 1..NumTasks : batch.after.sub_workspace_list[i] = MergedSlot(i)
        /\ batch.after.sub_tasks = batch.before.sub_tasks
    /\ batch.pc \in {"start", "running"} => batch.after = batch.before

\* An evolve whose last task finished first, with different results for the
\* two ends of the batch.
C21_Witness ==
    /\ batch.pc = "done"
    /\ batch.strategy = "FactorParsingStrategy"
    /\ Head(batch.order) = NumTasks
    /\ batch.order[Len(batch.order)] = 1
    /\ batch.after.sub_workspace_list[1] = inject_code(FactorFBWorkspace(1), "tmpl")
    /\ batch.after.sub_workspace_list[NumTasks] =
            inject_code(FactorFBWorkspace(NumTasks), "fixed")

\* C22: the workers write no workspace slot (the item is the same after a
\* worker's step as before it, so no two of them write the same slot), every
\* workspace in slot i is the workspace of task i, and no two slots hold the
\* same workspace.
C22_WorkersWriteNothing ==
    [][batch.pc = "running" /\ batch'.pc = "running" => batch'.after = batch.after]_vars

C22_SlotsBoundToOwnTask ==
    batch.pc # "none" =>
        LET ws == batch.after.sub_workspace_list
        IN  /\ \A i \in 1..NumTasks :
                ws[i] # NoWorkspace => ws[i].target_task = batch.after.sub_tasks[i]
            /\ \A i, j \in 1..NumTasks :
                i # j /\ ws[i] # NoWorkspace /\ ws[j] # NoWorkspace => ws[i] # ws[j]

C22_NoSharedWorkspace == C22_WorkersWriteNothing /\ [](C22_SlotsBoundToOwnTask)

\* An evolve that made a workspace in every slot of an item that had none,
\* all with the same code.
C22_Witness ==
    /\ batch.pc = "done"
    /\ \A i \in 1..NumTasks :
        /\ batch.before.sub_workspace_list[i] = NoWorkspace
        /\ batch.after.sub_workspace_list[i] = inject_code(FactorFBWorkspace(i), "tmpl")

\* The indices evolve selected.
Selected == {batch.after.corresponding_selection[k] :
                k \in 1..Len(batch.after.corresponding_selection)}

\* C23: after evolve has returned, every selected task whose call returned a
\* result that is not None has a workspace in its slot, and the workspace's
\* code is exactly that result, whatever the slot held before.
C23_ResultAssigned ==
    batch.pc = "done" =>
        \A i \in Selected :
            (batch.outcome[i].err = "none" /\ batch.outcome[i].ret # "None") =>
                /\ batch.after.sub_workspace_list[i] # NoWorkspace
                /\ batch.after.sub_workspace_list[i].code = batch.outcome[i].ret

\* An evolve that replaced the code of an earlier round in one slot and made
\* the workspace of another.
C23_Witness ==
    /\ batch.pc = "done"
    /\ Selected = 1..NumTasks
    /\ batch.before.sub_workspace_list[1] = inject_code(FactorFBWorkspace(1), "old")
    /\ batch.outcome[1] = Returned("oracle", 2, "fixed")
    /\ batch.after.sub_workspace_list[1] = inject_code(FactorFBWorkspace(1), "fixed")
    /\ batch.before.sub_workspace_list[NumTasks] = NoWorkspace
    /\ batch.after.sub_workspace_list[NumTasks] # NoWorkspace

\* Task i has produced code at least once: in an earlier round (its slot was
\* filled before this evolve) or in this one (its call returned a text that
\* is not empty).
ProducedCode(i) ==
    \/ batch.before.sub_workspace_list[i] # NoWorkspace
    \/ batch.outcome[i].err = "none" /\ batch.outcome[i].ret \notin {"None", ""}

\* C24: an item has as many workspace slots as tasks before and after
\* evolve, with the tasks in the same order, and at all times slot i holds a
\* workspace only if task i has produced code at least once.
C24_ItemShape ==
    batch.pc # "none" =>
        /\ Len(batch.after.sub_tasks) = Len(batch.after.sub_workspace_list)
        /\ Len(batch.before.sub_tasks) = Len(batch.before.sub_workspace_list)
        /\ batch.after.sub_tasks = batch.before.sub_tasks
        /\ \A i \in 1..NumTasks :
            batch.after.sub_workspace_list[i] # NoWorkspace => ProducedCode(i)

\* An evolve that made a workspace for a task that has never produced code:
\* its slot was empty and its call ran out of decode attempts.
C24_Witness ==
    /\ batch.pc = "done"
    /\ batch.strategy = "FactorMultiProcessEvolvingStrategy"
    /\ batch.before.sub_workspace_list[1] = NoWorkspace
    /\ batch.outcome[1] = Returned("oracle", MaxDecodeAttempts, "")
    /\ batch.after.sub_workspace_list[1] = inject_code(FactorFBWorkspace(1), "")
    /\ Len(batch.after.sub_workspace_list) = Len(batch.after.sub_tasks)

\* C25: the item evolve returns has corresponding_selection equal to the
\* indices whose call was run in this round, and these are all the indices
\* of the batch in increasing order, each once.
C25_SelectionIsAllIndices ==
    batch.pc = "done" =>
        LET sel == batch.after.corresponding_selection
        IN  /\ sel = [k \in 1..Len(batch.before.sub_tasks) |-> k]
            /\ {sel[k] : k \in 1..Len(sel)} =
                   {i \in 1..NumTasks : batch.outcome[i] # NotRun}

\* An evolve of an item with no selection recorded that returned it with
\* every index selected.
C25_Witness ==
    /\ batch.pc = "done"
    /\ batch.before.corresponding_selection = <<>>
    /\ Len(batch.after.corresponding_selection) = NumTasks
    /\ batch.after.corresponding_selection[1] = 1
    /\ batch.after.corresponding_selection[NumTasks] = NumTasks
    /\ \A i \in 1..NumTasks : batch.outcome[i].path # "none"

\* C26: a call of implement_one_task changes neither the lists of the
\* queried knowledge it was given (the trimming works on its own lists), nor
\* the trace the knowledge is derived from, nor any item's workspaces: the
\* same task and knowledge can be handed to it again.
C26_ImplementLeavesInputs ==
    [][impl.pc # "none" =>
        /\ impl'.queried = impl.queried
        /\ trace' = trace
        /\ batch' = batch]_vars

\* A call that dropped entries from its own lists and went on to the oracle
\* with the queried lists as long as they were.
C26_Witness ==
    /\ impl.pc = "done"
    /\ impl.trims >= 3
    /\ impl.calls > 0
    /\ Len(impl.queried.former) = MaxCtx
    /\ Len(impl.former) = 1
    /\ Len(impl.succ) < Len(impl.queried.succ)

\* C27: an error raised in one task's call does not reach the other tasks
\* of the batch: evolve goes on, every call still to finish can finish, the
\* assignment follows, and every other task's result that is not None is in
\* its slot when evolve returns.
C27_ErrorIsolated ==
    (\E i \in 1..NumTasks : batch.outcome[i].err # "none") =>
        /\ batch.pc \in {"running", "done"}
        /\ batch.pc = "running" =>
            /\ \A j \in 1..NumTasks :
                batch.outcome[j] = NotRun => ENABLED EvolveWorker(j)
            /\ (\A j \in 1..NumTasks : batch.outcome[j] # NotRun) => ENABLED EvolveAssign
        /\ batch.pc = "done" =>
            \A j \in 1..NumTasks :
                (batch.outcome[j].err = "none" /\ batch.outcome[j].ret # "None") =>
                    batch.after.sub_workspace_list[j] =
                        [kind |-> "ws", target_task |-> batch.before.sub_tasks[j],
                         code |-> batch.outcome[j].ret]

\* An evolve in which the first task's call raised before the last one's had
\* finished, and the last task's result was assigned all the same.
C27_Witness ==
    /\ batch.pc = "done"
    /\ batch.outcome[1] = Raised("oracle", 1, "KeyError")
    /\ Head(batch.order) = 1
    /\ batch.outcome[NumTasks] = Returned("oracle", 1, "fixed")
    /\ batch.after.sub_workspace_list[1] = batch.before.sub_workspace_list[1]
    /\ batch.after.sub_workspace_list[NumTasks] =
            inject_code(FactorFBWorkspace(NumTasks), "fixed")

\* The flag is set and factor_calculate (synthesize) is in its body.
CancelledInSynthesize ==
    FlagNow /\ pc = "body" /\ StepName(step_idx) = "factor_calculate"

\* C28, the step is not interrupted: from a state with the flag set inside
\* factor_calculate the only steps are a worker finishing its call, the step
\* returning with the results of all calls merged into its output, and the
\* death of the process; no cancellation error comes out of it.
C28_NotInterrupted ==
    [][CancelledInSynthesize =>
        \/ /\ pc' = "body"
           /\ \A i \in 1..NumTasks : result[i] # "pending" => result'[i] = result[i]
           /\ \A i \in 1..NumTasks : result'[i] # "pending"
                \/ ENABLED Worker(i)
        \/ /\ pc' = "save"
           /\ \A i \in 1..NumTasks : result[i] # "pending"
           /\ loop_prev_out'["factor_calculate"].sub_workspace_list =
                evolve(loop_prev_out["factor_construct"], result).sub_workspace_list
        \/ pc' = "crashed"]_vars

\* C28, no new dispatch: with the flag set no call becomes pending.
C28_NoNewDispatch ==
    [][FlagNow =>
        \A i \in 1..NumTasks : result'[i] = "pending" => result[i] = "pending"]_vars

\* C28, the next check raises: with the flag set, a step that run() invokes
\* does not start its body; its check raises.
C28_NextCheckRaises ==
    [][(FlagNow /\ pc = "top" /\ invoked' # invoked /\ ~IsResume) =>
        pc' = "raised" /\ err' = "Exception"]_vars

\* C28, to completion: a factor_calculate that has the flag set in its body
\* reaches its end with its output stored, unless the process dies; and the
\* run then ends at the next check, unless the step ceiling ends it first.
C28_RunsToCompletion ==
    /\ CancelledInSynthesize ~>
        \/ pc = "crashed"
        \/ pc = "save" /\ g.last_ret = <<loop_idx, "factor_calculate">>
    /\ CancelledInSynthesize ~>
        \/ pc \in {"crashed", "finished"}
        \/ pc = "terminated" /\ err = "Exception"
              /\ invoked = [loop |-> loop_idx, step |-> "factor_backtest", flag |-> TRUE]

\* C28: setting the flag while factor_calculate runs does not interrupt it;
\* the calls dispatched run to their end and their results are merged, no
\* call is dispatched once the flag is set, and the check of the next step
\* raises.
C28_CancelDuringSynthesize ==
    /\ C28_NotInterrupted
    /\ C28_NoNewDispatch
    /\ C28_NextCheckRaises
    /\ C28_RunsToCompletion

\* The flag was set inside factor_calculate, after its check had passed,
\* while one call had finished and another had not.
C28_Witness ==
    /\ CancelledInSynthesize
    /\ invoked = [loop |-> loop_idx, step |-> "factor_calculate", flag |-> FALSE]
    /\ result[1] = "tmpl"
    /\ result[NumTasks] = "pending"

\* A worker of evolve is at work.
WorkersActive == \E i \in 1..NumTasks : result[i] = "pending"

\* C29, readers: workers are at work only inside factor_calculate.
C29_ReadersOnlyInSynthesize ==
    WorkersActive =>
        /\ pc = "body"
        /\ StepName(step_idx) = "factor_calculate"
        /\ in_progress = {<<loop_idx, "factor_calculate">>}

\* C29, writes: within a run the store of past outcomes (the Trace the
\* knowledge is derived from) changes only in the step that ends feedback;
\* no worker is at work then and no other step is in progress, the
\* iteration's factor_calculate and factor_backtest have returned their
\* outputs, and the next iteration has not begun any step.
C29_WriteOnlyInFeedback ==
    [][(trace' # trace /\ ~IsResume) =>
        /\ pc = "body" /\ StepName(step_idx) = "feedback"
        /\ ~WorkersActive /\ ~WorkersActive'
        /\ in_progress = {<<loop_idx, "feedback">>}
        /\ Has(loop_prev_out, "factor_calculate")
        /\ loop_prev_out["factor_calculate"].loop = loop_idx
        /\ Has(loop_prev_out, "factor_backtest")
        /\ loop_prev_out["factor_backtest"].loop = loop_idx
        /\ loop_idx' = loop_idx + 1 /\ step_idx' = 0
        /\ pc' = "save" /\ in_progress' = {}]_vars

NoDecodeFailure(i) ==
    /\ batch.outcome[i].err = "none"
    /\ batch.outcome[i].ret # "None"
    /\ batch.outcome[i].calls <= 1

\* C30: in a batch of FactorParsingStrategy with queried knowledge, each
\* task is routed by its own former failures: a task that has one takes the
\* oracle path (at least one structured call, exactly one when no decode
\* fails), a task that has none gets the rendered template with no oracle
\* call; and when no call has a decode failure every slot holds a workspace
\* after evolve.
C30_RoutedByOwnHistory ==
    (batch.pc # "none" /\ batch.strategy = "FactorParsingStrategy"
        /\ batch.knowledge # "None") =>
        /\ \A i \in 1..NumTasks :
            batch.outcome[i] # NotRun =>
                /\ Len(batch.former[i]) = 0 =>
                        batch.outcome[i] = Returned("template", 0, "tmpl")
                /\ Len(batch.former[i]) > 0 =>
                        /\ batch.outcome[i].path = "oracle"
                        /\ batch.outcome[i].calls >= 1
                        /\ NoDecodeFailure(i) =>
                                batch.outcome[i] = Returned("oracle", 1, "fixed")
        /\ (batch.pc = "done" /\ \A i \in 1..NumTasks : NoDecodeFailure(i)) =>
                \A i \in 1..NumTasks :
                    /\ batch.after.sub_workspace_list[i] # NoWorkspace
                    /\ batch.after.sub_workspace_list[i].code = batch.outcome[i].ret

\* The batch of the scenario: the first task has one former failure and the
\* code of that attempt in its slot, the others have no history and no
\* workspace; the first went to the oracle once, the others were rendered
\* from the template, and every slot holds a workspace.
C30_Witness ==
    /\ batch.pc = "done"
    /\ batch.strategy = "FactorParsingStrategy"
    /\ batch.knowledge = "V2"
    /\ batch.former[1] = Entries(1)
    /\ batch.before.sub_workspace_list[1] = inject_code(FactorFBWorkspace(1), "old")
    /\ batch.outcome[1] = Returned("oracle", 1, "fixed")
    /\ batch.after.sub_workspace_list[1] = inject_code(FactorFBWorkspace(1), "fixed")
    /\ \A i \in 2..NumTasks :
        /\ batch.former[i] = Entries(0)
        /\ batch.before.sub_workspace_list[i] = NoWorkspace
        /\ batch.outcome[i] = Returned("template", 0, "tmpl")
        /\ batch.after.sub_workspace_list[i] = inject_code(FactorFBWorkspace(i), "tmpl")

\* C31: one call of implement_one_task asks the oracle for an error summary
\* at most once, however many trimming rounds it takes, and only with a V2
\* knowledge, error summaries enabled, a former-failed entry and a
\* similar-error entry.
C31_OneErrorSummaryCall ==
    /\ impl.summaries <= 1
    /\ impl.summaries > 0 =>
        /\ impl.knowledge = "V2"
        /\ impl.v2_error_summary
        /\ Len(impl.queried.former) > 0
        /\ Len(impl.queried.errs) > 0

\* A call that asked for the error summary in each of three rounds: the
\* first two were over budget and dropped a former-failed entry each.
C31_Witness ==
    /\ impl.pc = "decode"
    /\ impl.round = 3
    /\ impl.summaries = 3
    /\ impl.trims = 2
    /\ Len(impl.queried.former) = 3
    /\ Len(impl.former) = 1
    /\ Len(impl.errs) = 1
    /\ impl.prompt.under

\* ------------------------------------------------------------------ main

EntryPoints == {"factor_mining", "factor_backtest"}

\* No loop object exists in the process: the module global STOP_EVENT has its
\* import-time value and nothing of a loop is in memory.
NoLoop ==
    /\ loop_idx = 0
    /\ step_idx = 0
    /\ loop_prev_out = EmptyOut
    /\ trace = <<>>
    /\ use_local = FALSE
    /\ STOP_EVENT = "None"
    /\ ev_set = FALSE
    /\ step_n = NoCeiling
    /\ err = "none"
    /\ result = NoTasks
    /\ in_progress = {}
    /\ invoked = NoInvocation
    /\ stop_at = NoStop
    /\ engine_ret = "n/a"

\* The data check main starts with: the check is made and its outcome ignored.
main_data_check_ignored(initialized) == [exit |-> FALSE, status |-> 0]

\* The data check main starts with: when the market data is not initialized
\* the process exits with status 1.
main_data_check(initialized) ==
    IF ~initialized THEN [exit |-> TRUE, status |-> 1] ELSE [exit |-> FALSE, status |-> 0]

\* A process is started at either entry point, on a machine whose market
\* data is or is not initialized.
MainInit ==
    /\ pc = "main"
    /\ NoLoop
    /\ session = <<>>
    /\ g = [fb_done |-> 0, ncompleted |-> 0, last_ret |-> <<>>]
    /\ g_saved = g
    /\ resumes = 0
    /\ impl = NoCall
    /\ batch = NoBatch
    /\ \E e \in EntryPoints, d \in BOOLEAN :
       \E ev \in (IF e = "factor_mining" THEN StopEvents ELSE {"None"}) :
        proc = Process(e, "None", ev, d)
    /\ exec = NoExecute
    /\ summary = NoSummary

\* main: the data check fails and the process exits.
MainExit ==
    /\ pc = "main"
    /\ main_data_check(proc.data_initialized).exit
    /\ pc' = "exited"
    /\ proc' = [proc EXCEPT !.status = main_data_check(proc.data_initialized).status]
    /\ UNCHANGED <<summary, exec, impl, batch, loop_idx, step_idx, loop_prev_out, trace, use_local,
                   STOP_EVENT, ev_set, step_n, session, err, result, in_progress,
                   invoked, stop_at, engine_ret, g, g_saved, resumes>>

\* main(path=None): the data check passes, the loop is constructed and run
\* is entered.
MainConstruct ==
    /\ pc = "main"
    /\ ~main_data_check(proc.data_initialized).exit
    /\ proc.path = "None"
    /\ pc' = "top"
    /\ loop_idx' = 0
    /\ step_idx' = 0
    /\ trace' = <<>>
    /\ step_n' \in StepNChoices
    /\ IF proc.entry = "factor_mining"
       THEN /\ loop_prev_out' = EmptyOut
            /\ use_local' \in BOOLEAN
            /\ STOP_EVENT' = proc.stop_event
            /\ g' = [fb_done |-> 0, ncompleted |-> 0, last_ret |-> <<>>]
       ELSE /\ loop_prev_out' = BtEmptyOut
            /\ use_local' = FALSE
            /\ STOP_EVENT' = STOP_EVENT
            /\ g' = [proposed |-> 0, backtested |-> 0]
    /\ UNCHANGED <<summary, exec, proc, impl, batch, ev_set, session, err, result, in_progress,
                   invoked, stop_at, engine_ret, g_saved, resumes>>

\* main(path=session): the data check passes, the loop is loaded and run is
\* entered.
MainLoad ==
    /\ pc = "main"
    /\ ~main_data_check(proc.data_initialized).exit
    /\ proc.path = "session"
    /\ pc' = "top"
    /\ step_n' \in StepNChoices
    /\ IF proc.entry = "factor_mining"
       THEN \E ul \in BOOLEAN :
            LET l == load(session, ul, proc.stop_event)
            IN /\ loop_idx' = l.instance.loop_idx
               /\ step_idx' = l.instance.step_idx
               /\ loop_prev_out' = l.instance.loop_prev_out
               /\ trace' = l.instance.trace
               /\ use_local' = l.instance.use_local
               /\ STOP_EVENT' = l.STOP_EVENT
               /\ g' = g_saved
       ELSE LET l == LoopBase_load(session)
            IN /\ loop_idx' = l.loop_idx
               /\ step_idx' = l.step_idx
               /\ loop_prev_out' = l.loop_prev_out
               /\ trace' = l.trace
               /\ use_local' = l.use_local
               /\ STOP_EVENT' = STOP_EVENT
               /\ g' = [proposed |-> 0, backtested |-> 0]
    /\ UNCHANGED <<summary, exec, proc, impl, batch, ev_set, session, err, result, in_progress,
                   invoked, stop_at, engine_ret, g_saved, resumes>>

\* The process has ended; the same entry point is started again in a new
\* process, with or without the session path, the data being there or not.
MainAgain ==
    /\ pc \in {"finished", "terminated", "exited"}
    /\ resumes < MaxResume
    /\ \E path \in {"None"} \cup (IF session # <<>> THEN {"session"} ELSE {}),
          d \in BOOLEAN,
          ev \in (IF proc.entry = "factor_mining" THEN StopEvents ELSE {"None"}) :
        proc' = Process(proc.entry, path, ev, d)
    /\ pc' = "main"
    /\ loop_idx' = 0
    /\ step_idx' = 0
    /\ loop_prev_out' = EmptyOut
    /\ trace' = <<>>
    /\ use_local' = FALSE
    /\ STOP_EVENT' = "None"
    /\ ev_set' = FALSE
    /\ step_n' = NoCeiling
    /\ err' = "none"
    /\ result' = NoTasks
    /\ in_progress' = {}
    /\ invoked' = NoInvocation
    /\ stop_at' = NoStop
    /\ engine_ret' = "n/a"
    /\ resumes' = resumes + 1
    /\ UNCHANGED <<summary, exec, impl, batch, session, g, g_saved>>

MainNext ==
    \/ MainExit
    \/ MainConstruct
    \/ MainLoad
    \/ MainAgain
    \/ /\ proc.entry = "factor_mining"
       /\ \/ LoopNext
          \/ SetStop
    \/ /\ proc.entry = "factor_backtest"
       /\ \/ RunCeiling
          \/ BtStepBegin
          \/ BtWorkerDone
          \/ BtStepReturn
          \/ Save
          \/ BtSkipLoop

MainSpec == MainInit /\ [][MainNext]_vars

\* C32: when the market data is not initialized at the mining or the backtest
\* entry, the process exits with a non-zero status before any loop is
\* constructed or loaded: no step executes, no checkpoint is written, and the
\* stored session with its trace is left as it was.
C32_DataMissingExits ==
    /\ [][(pc = "main" /\ ~proc.data_initialized) =>
            /\ pc' = "exited"
            /\ proc'.status > 0
            /\ NoLoop'
            /\ session' = session
            /\ g' = g
            /\ g_saved' = g_saved]_vars
    /\ [](~proc.data_initialized =>
            /\ pc \in {"main", "exited"}
            /\ NoLoop
            /\ pc = "exited" => proc.status > 0)

C32_Witness ==
    /\ pc = "exited"
    /\ proc.entry = "factor_mining"
    /\ proc.path = "session"
    /\ ~proc.data_initialized
    /\ proc.status = 1
    /\ session # <<>>
    /\ Len(LoopBase_load(session).trace) > 0

\* ------------------------------------------------- QlibFBWorkspace.execute

WorkspacePaths == {"ws_a", "ws_b"}

\* ret.pkl in the workspace: not there, there but not loadable, loadable.
PickleStates == {"absent", "corrupt", "ok"}

\* qlib_res.csv in the workspace.
CsvStates == {"absent", "present"}

\* The two commands execute hands to the engine, in the order it issues them.
execute_entries == <<"qrun conf.yaml", "python read_exp_res.py">>

\* The engine's run: the command is carried out in the given workspace and
\* its log comes back; a failing command is a matter of the log, not an error
\* of the call.
QTDockerEnv_run(runs, local_path, entry) ==
    Append(runs, [local_path |-> local_path, entry |-> entry])

\* read_exp_res.py: without a recorder it exits at once; with one it writes
\* qlib_res.csv and then ret.pkl, unless the portfolio report cannot be
\* loaded.
read_exp_res(recorder, report, files) ==
    IF ~recorder THEN files
    ELSE [ret_pkl |-> IF report THEN "ok" ELSE files.ret_pkl, csv |-> "present"]

\* The loading of the result in which only a missing ret.pkl is caught.
load_result_missing_only(files) ==
    IF files.ret_pkl = "absent" THEN [ret |-> "None", err |-> "none"]
    ELSE IF files.ret_pkl = "corrupt" THEN [ret |-> "n/a", err |-> "Exception"]
    ELSE IF files.csv = "absent" THEN [ret |-> "None", err |-> "none"]
    ELSE [ret |-> "result", err |-> "none"]

\* The loading of the result: None when ret.pkl is missing or cannot be
\* loaded, None when qlib_res.csv is missing, otherwise the first column of
\* the table.
load_result(files) ==
    IF files.ret_pkl = "absent" THEN [ret |-> "None", err |-> "none"]
    ELSE IF files.ret_pkl = "corrupt" THEN [ret |-> "None", err |-> "none"]
    ELSE IF files.csv = "absent" THEN [ret |-> "None", err |-> "none"]
    ELSE [ret |-> "result", err |-> "none"]

\* One execute call on a workspace that earlier runs may have left files and
\* a recorder in.
ExecuteInit ==
    /\ AtRest
    /\ summary = NoSummary
    /\ impl = NoCall
    /\ batch = NoBatch
    /\ \E ul \in BOOLEAN, w \in WorkspacePaths, p \in PickleStates, c \in CsvStates,
          rec \in BOOLEAN :
        exec = [pc |-> "entry", use_local |-> ul, workspace_path |-> w,
                yaml |-> "hardcoded", recorder |-> rec,
                files |-> [ret_pkl |-> p, csv |-> c],
                runs |-> <<>>, ret |-> "pending", err |-> "none"]

\* The yaml files get the data directory when the run is local; the engine
\* environment is prepared.
ExecutePrepare ==
    /\ exec.pc = "entry"
    /\ exec' = [exec EXCEPT !.pc = "backtest",
                            !.yaml = IF exec.use_local THEN "rewritten" ELSE @]
    /\ UNCHANGED <<summary, loop_vars, impl, batch>>

\* The first engine run: the backtest, which leaves a recorder or fails.
ExecuteBacktest ==
    /\ exec.pc = "backtest"
    /\ \E made \in BOOLEAN :
        exec' = [exec EXCEPT !.pc = "reader",
                             !.runs = QTDockerEnv_run(@, exec.workspace_path,
                                                      execute_entries[1]),
                             !.recorder = @ \/ made]
    /\ UNCHANGED <<summary, loop_vars, impl, batch>>

\* The second engine run: the result reader.
ExecuteReader ==
    /\ exec.pc = "reader"
    /\ \E report \in BOOLEAN :
        exec' = [exec EXCEPT !.pc = "load",
                             !.runs = QTDockerEnv_run(@, exec.workspace_path,
                                                      execute_entries[2]),
                             !.files = read_exp_res(exec.recorder, report, @)]
    /\ UNCHANGED <<summary, loop_vars, impl, batch>>

\* The result is loaded from the workspace and execute returns or raises.
ExecuteLoad ==
    /\ exec.pc = "load"
    /\ LET r == load_result(exec.files)
       IN exec' = [exec EXCEPT !.pc = IF r.err = "none" THEN "returned" ELSE "raised",
                               !.ret = r.ret, !.err = r.err]
    /\ UNCHANGED <<summary, loop_vars, impl, batch>>

ExecuteNext ==
    \/ ExecutePrepare
    \/ ExecuteBacktest
    \/ ExecuteReader
    \/ ExecuteLoad

ExecuteSpec == ExecuteInit /\ [][ExecuteNext]_vars

\* C33: one execute call issues exactly two engine runs against its own
\* workspace, the backtest first and the result reader second, and returns
\* None without raising whenever ret.pkl cannot be loaded or qlib_res.csv is
\* missing.
C33_TwoRunsThenResult ==
    /\ Len(exec.runs) <= 2
    /\ \A i \in 1..Len(exec.runs) :
        /\ exec.runs[i].entry = execute_entries[i]
        /\ exec.runs[i].local_path = exec.workspace_path
    /\ exec.pc = "load" => Len(exec.runs) = 2
    /\ exec.pc # "raised"
    /\ exec.pc = "returned" =>
        /\ Len(exec.runs) = 2
        /\ exec.err = "none"
        /\ (exec.files.ret_pkl # "ok" \/ exec.files.csv = "absent") => exec.ret = "None"

C33_Witness ==
    /\ exec.pc = "returned"
    /\ Len(exec.runs) = 2
    /\ exec.files.ret_pkl = "corrupt"
    /\ exec.files.csv = "present"
    /\ exec.recorder
    /\ exec.ret = "None"

\* The newest entry of a list.
Newest(s) == s[Len(s)]

\* C34: in FactorParsingStrategy, once the call is past the template return,
\* the former-failed list it renders from has at least one entry in every
\* trimming round and afterwards, and its last entry is the newest failure
\* the knowledge holds: the access to [-1] never fails.
C34_FormerNeverEmpty ==
    impl.strategy = "FactorParsingStrategy" =>
        /\ impl.err # "IndexError"
        /\ impl.pc \in {"trim", "decode"} =>
            /\ Len(impl.former) >= 1
            /\ Newest(impl.former) = Newest(impl.queried.former)
        /\ impl.prompt.rendered =>
            /\ Len(impl.prompt.former) >= 1
            /\ Newest(impl.prompt.former) = Newest(impl.queried.former)

C34_Witness ==
    /\ impl.strategy = "FactorParsingStrategy"
    /\ impl.pc = "trim"
    /\ Len(impl.queried.former) = 3
    /\ impl.trims = 3
    /\ impl.former = <<Newest(impl.queried.former)>>
    /\ impl.prompt.rendered
    /\ impl.prompt.former = impl.former
    /\ ~impl.prompt.under

\* The number of entries in the three context sets of the call.
ContextEntries(c) == Len(c.former) + Len(c.succ) + Len(c.errs)

\* How many of the three context sets differ between two states of the call.
SetsChanged(a, b) ==
    (IF a.former # b.former THEN 1 ELSE 0) + (IF a.succ # b.succ THEN 1 ELSE 0)
        + (IF a.errs # b.errs THEN 1 ELSE 0)

\* A trimming round that found the prompt over the budget has just run.
OverBudgetRound ==
    /\ impl.pc = "trim"
    /\ impl'.round = impl.round + 1
    /\ ~impl'.prompt.under

\* C35: a trimming round that finds the prompt over budget removes at most
\* one entry, from at most one of the three context sets, and leaves the
\* other two as they were; when no shrink condition holds it leaves all
\* three as they were.
C35_OneEntryPerRound ==
    [][OverBudgetRound =>
        /\ ContextEntries(impl) - ContextEntries(impl') \in {0, 1}
        /\ SetsChanged(impl, impl') <= 1
        /\ Len(impl'.former) <= Len(impl.former)
        /\ Len(impl'.succ) <= Len(impl.succ)
        /\ Len(impl'.errs) <= Len(impl.errs)
        /\ (Len(impl.former) <= 1 /\ Len(impl.succ) <= Len(impl.errs)
                /\ Len(impl.errs) = 0) => SetsChanged(impl, impl') = 0
        /\ (Len(impl.former) > 1 \/ Len(impl.succ) > Len(impl.errs)
                \/ Len(impl.errs) > 0) => SetsChanged(impl, impl') = 1]_vars

C35_Witness ==
    /\ impl.pc = "trim"
    /\ impl.round = 3
    /\ impl.trims = 2
    /\ ~impl.prompt.under
    /\ ContextEntries(impl.queried) = 3
    /\ ContextEntries(impl) = 1
    /\ impl.prompt.former = impl.former
    /\ impl.prompt.succ = impl.succ
    /\ impl.prompt.errs = impl.errs

\* C37: in FactorParsingStrategy, when the first well-formed structured
\* response is the k-th (k at most 10), the call makes exactly k structured
\* oracle calls: as long as none has arrived and attempts are left it goes on
\* asking, and on the well-formed one it returns at once the template
\* rendered with that response's expression and the task's factor name.
C37_ReturnsOnFirstWellFormed ==
    (impl.strategy = "FactorParsingStrategy" /\ impl.calls > 0) =>
        /\ impl.calls <= MaxDecodeAttempts
        /\ impl.last = "ok" =>
            /\ impl.pc = "done"
            /\ impl.err = "none"
            /\ impl.ret = render("oracle_expr", target_task.factor_name)
            /\ ~ENABLED DecodeAttempt
        /\ (impl.last # "ok" /\ impl.calls < MaxDecodeAttempts) => impl.pc = "decode"

\* The call ended by the second response, a JSON object without "expr",
\* before any well-formed response could arrive.
C37_Witness ==
    /\ impl.strategy = "FactorParsingStrategy"
    /\ impl.pc = "raised"
    /\ impl.err = "KeyError"
    /\ impl.calls = 2
    /\ impl.last = "nofield"
    /\ impl.ret = Pending

\* ----------------------------------------------------------- error_summary

\* for _ in range(10) of error_summary.
MaxSummaryRounds == 10

\* Another round after `round` rounds.
SummaryLoopGoesOn(round) == round < MaxSummaryRounds

\* The over-budget branch in which the oldest similar-error entry goes.
SummaryTrim_oldest(errs) == IF Len(errs) > 0 THEN Tail(errs) ELSE errs

\* The over-budget branch: the list loses its last entry if it has one.
SummaryTrim(errs) == IF Len(errs) > 0 THEN SubSeq(errs, 1, Len(errs) - 1) ELSE errs

\* One error_summary call, made by implement_one_task with a former-failed
\* entry and a similar-error entry at hand.
SummaryInit ==
    /\ AtRest
    /\ impl = NoCall
    /\ batch = NoBatch
    /\ exec = NoExecute
    /\ \E f \in 1..MaxCtx, e \in 1..MaxCtx :
        summary = [pc |-> "loop", former |-> Entries(f), queried_errs |-> Entries(e),
                   errs |-> Entries(e), round |-> 0, over |-> 0,
                   prompt |-> [rendered |-> FALSE, errs |-> <<>>, under |-> FALSE],
                   calls |-> 0, sent |-> <<>>, ret |-> "pending"]

\* One round of the loop: the user prompt is rendered from the similar-error
\* list, its tokens are estimated, and the loop breaks or the list is cut.
SummaryRound ==
    /\ summary.pc = "loop"
    /\ \E under \in BOOLEAN :
        LET rendered == [summary EXCEPT
                !.round = @ + 1,
                !.prompt = [rendered |-> TRUE, errs |-> summary.errs, under |-> under]]
        IN summary' =
            IF under
            THEN [rendered EXCEPT !.pc = "call"]
            ELSE [rendered EXCEPT
                    !.errs = SummaryTrim(@),
                    !.over = @ + 1,
                    !.pc = IF SummaryLoopGoesOn(summary.round + 1) THEN "loop" ELSE "call"]
    /\ UNCHANGED <<loop_vars, impl, batch, exec>>

\* After the loop: the one free-form oracle call, with the prompt as last
\* rendered, and the return of its text.
SummaryCall ==
    /\ summary.pc = "call"
    /\ summary' = [summary EXCEPT !.pc = "returned", !.calls = @ + 1,
                                  !.sent = summary.prompt.errs, !.ret = "critics"]
    /\ UNCHANGED <<loop_vars, impl, batch, exec>>

SummaryNext ==
    \/ SummaryRound
    \/ SummaryCall

SummarySpec == SummaryInit /\ [][SummaryNext]_vars

\* C39: the trimming loop of error_summary ends within 10 rounds; each
\* over-budget round removes the last similar-error entry and nothing else,
\* never adding one; and each call of error_summary makes exactly one
\* free-form oracle call, also when the prompt is still over budget after the
\* last round.
C39_SummaryLoopBounded ==
    /\ summary.round <= MaxSummaryRounds
    /\ summary.round = MaxSummaryRounds => summary.pc # "loop"
    /\ Len(summary.errs) = Len(summary.queried_errs) - summary.over
        \/ (Len(summary.errs) = 0 /\ summary.over >= Len(summary.queried_errs))
    /\ summary.errs = SubSeq(summary.queried_errs, 1, Len(summary.errs))
    /\ summary.former = Entries(Len(summary.former))
    /\ summary.pc \in {"loop", "call"} => summary.calls = 0
    /\ summary.pc = "returned" => summary.calls = 1
    /\ summary.pc = "call" => ENABLED SummaryCall

C39_Witness ==
    /\ summary.pc = "returned"
    /\ summary.round = MaxSummaryRounds
    /\ summary.over = MaxSummaryRounds
    /\ ~summary.prompt.under
    /\ Len(summary.queried_errs) = 3
    /\ summary.errs = <<>>
    /\ summary.calls = 1

\* C38: the flag the step checks of AlphaAgentLoop observe is the one event
\* installed by the most recent construction or load: once the loop of a
\* process exists, the global STOP_EVENT is the stop_event that process was
\* given; a check raises exactly when that event is there and set; and with
\* None installed no step raises a cancellation error.
C38_ChecksObserveInstalledEvent ==
    (proc.entry = "factor_mining" /\ pc \notin {"main", "exited"}) =>
        /\ STOP_EVENT = proc.stop_event
        /\ invoked.flag => proc.stop_event # "None" /\ ev_set
        /\ (pc = "top" /\ ~CeilingReached /\ loop_idx < MaxLoop) =>
            (ENABLED StepCancelled <=> (proc.stop_event # "None" /\ ev_set))
        /\ proc.stop_event = "None" => err # "Exception" /\ ~ENABLED StepCancelled

\* A loaded loop, given an event by a process that follows one constructed
\* without, stopped by that event at a step check.
C38_Witness ==
    /\ proc.entry = "factor_mining"
    /\ proc.path = "session"
    /\ proc.stop_event = "ev"
    /\ resumes = 1
    /\ STOP_EVENT = "ev"
    /\ ev_set
    /\ invoked.flag
    /\ pc = "raised"
    /\ err = "Exception"

====
